---------------------------- MODULE Spec2Model ----------------------------
(***************************************************************************)
(* A model of the o1heap allocator (o1heap.c / o1heap.h).                  *)
(*                                                                         *)
(* The allocator is modelled as built for a target with 16-bit pointers    *)
(* and a 16-bit size_t (sizeof(void* ) = 2), with the portable software    *)
(* count-leading-zeros of o1heap.c.  Every quantity of the program is then *)
(* an integer below 2^16 and the arithmetic of size_t is modelled with its *)
(* width.  All sizes and addresses are in bytes.                           *)
(*                                                                         *)
(* The arena is a memory of cells of O1HEAP_ALIGNMENT bytes, two words     *)
(* each: a fragment header is one cell <<next, prev_used>>, the bin links  *)
(* of a free fragment are the cell after it <<next_free, prev_free>>, and  *)
(* every other cell is payload.  Between two calls the model keeps the     *)
(* contents of the cells the allocator owns: the headers of the fragments  *)
(* of the chain and the bin links of the free ones.  The payload is the    *)
(* caller's, and the rest of a free fragment is indeterminate; what the    *)
(* allocator finds there is not tracked, and those cells read as all-ones  *)
(* words: a used flag read from one is set, a pointer read from one lies   *)
(* outside the arena.  The caller of o1heapReallocate writes words of its  *)
(* own to the blocks it holds right before the call and reads them back    *)
(* right after it.                                                         *)
(*                                                                         *)
(* Spec is the allocator in use: o1heapInit on a valid arena, then any     *)
(* sequence of o1heapAllocate, o1heapFree and o1heapReallocate.  SpecInit  *)
(* is o1heapInit alone, on valid and invalid arguments.                    *)
(***************************************************************************)
EXTENDS Integers, Sequences, FiniteSets, TLC

\* -------------------------------------------------------------- bounds

\* The largest arena capacity of the model, in minimal fragments.
MaxCapUnits == 4

\* Calls that fail for lack of memory are made while oom_count is below this.
MaxOom == 1

\* -------------------------------------------------- platform and macros

\* sizeof(void* ) and sizeof(size_t) of the target, in bytes.
PtrBytes == 2

CHAR_BIT == 8

\* sizeof(uint64_t), the type of oom_count.
U64Bytes == 8

SIZE_BITS == PtrBytes * CHAR_BIT

SIZE_MOD == 2 ^ SIZE_BITS

SIZE_MAX == SIZE_MOD - 1

NULL == 0

O1HEAP_ALIGNMENT == PtrBytes * 2

FRAGMENT_SIZE_MIN == O1HEAP_ALIGNMENT * 2

FRAGMENT_SIZE_MAX == (SIZE_MAX \div 2) + 1

NUM_BINS_MAX == PtrBytes * CHAR_BIT

\* sizeof(O1HeapInstance): bins, nonempty_bin_mask, arena_end, diagnostics
\* (four size_t and one uint64_t).
InstanceSize == (NUM_BINS_MAX * PtrBytes) + PtrBytes + PtrBytes + (4 * PtrBytes) + U64Bytes

INSTANCE_SIZE_PADDED == ((InstanceSize + O1HEAP_ALIGNMENT - 1) \div O1HEAP_ALIGNMENT) * O1HEAP_ALIGNMENT

\* o1heapMinArenaSize one byte too large: an arena that holds the instance
\* and exactly one minimal fragment is refused.
o1heapMinArenaSizeExclusive == (INSTANCE_SIZE_PADDED + FRAGMENT_SIZE_MIN) + 1

o1heapMinArenaSize == INSTANCE_SIZE_PADDED + FRAGMENT_SIZE_MIN

\* ------------------------------------------------ size_t arithmetic

SizeAdd(a, b) == (a + b) % SIZE_MOD

SizeSub(a, b) == ((a - b) + SIZE_MOD) % SIZE_MOD

RECURSIVE BitAnd(_, _)
BitAnd(a, b) ==
    IF a = 0 \/ b = 0 THEN 0
    ELSE ((a % 2) * (b % 2)) + 2 * BitAnd(a \div 2, b \div 2)

BitOr(a, b) == a + b - BitAnd(a, b)

BitNot(a) == SIZE_MAX - a

\* larger() with the comparison lost: the second argument always wins.
largerTakesSecond(a, b) == b

larger(a, b) == IF a > b THEN a ELSE b

\* The software count-leading-zeros: t is one bit, which starts at the top
\* and moves down until it meets a set bit of x; (x & t) is that bit of x.
RECURSIVE ClzLoop(_, _, _)
ClzLoop(x, t, r) ==
    IF ((x \div t) % 2) = 0 THEN ClzLoop(x, t \div 2, r + 1) ELSE r

O1HEAP_CLZ(x) == ClzLoop(x, 2 ^ (SIZE_BITS - 1), 0)

log2Floor(x) == (SIZE_BITS - 1) - O1HEAP_CLZ(x)

pow2(power) == (2 ^ power) % SIZE_MOD

\* roundUpToPowerOf2() that rounds up to the next multiple of
\* FRAGMENT_SIZE_MIN only.
roundUpToFragmentSizeMin(x) ==
    (((x + FRAGMENT_SIZE_MIN) - 1) \div FRAGMENT_SIZE_MIN) * FRAGMENT_SIZE_MIN

roundUpToPowerOf2(x) == (2 ^ (SIZE_BITS - O1HEAP_CLZ(x - 1))) % SIZE_MOD

\* ------------------------------------------ fragment header accessors
\* h is the heap: [handle, mem, bins, nonempty_bin_mask, arena_end,
\* diagnostics].  An operator that writes returns the heap written.

fragGetNext(h, frag) == h.mem[frag][1]

fragGetPrev(h, frag) == h.mem[frag][2] - (h.mem[frag][2] % 2)

fragIsUsed(h, frag) == (h.mem[frag][2] % 2) # 0

fragGetSize(h, frag) ==
    IF h.mem[frag][1] # NULL THEN h.mem[frag][1] - frag ELSE h.arena_end - frag

fragSetNext(h, frag, value) == [h EXCEPT !.mem[frag][1] = value]

fragSetPrev(h, frag, value) == [h EXCEPT !.mem[frag][2] = (h.mem[frag][2] % 2) + value]

fragSetUsed(h, frag, value) ==
    [h EXCEPT !.mem[frag][2] = IF value
                               THEN (h.mem[frag][2] - (h.mem[frag][2] % 2)) + 1
                               ELSE h.mem[frag][2] - (h.mem[frag][2] % 2)]

\* Fragment.next_free and Fragment.prev_free: the two words after the header.
fragNextFree(h, frag) == h.mem[frag + O1HEAP_ALIGNMENT][1]

fragPrevFree(h, frag) == h.mem[frag + O1HEAP_ALIGNMENT][2]

fragSetNextFree(h, frag, value) == [h EXCEPT !.mem[frag + O1HEAP_ALIGNMENT][1] = value]

fragSetPrevFree(h, frag, value) == [h EXCEPT !.mem[frag + O1HEAP_ALIGNMENT][2] = value]

\* ------------------------------------------------ fragment management

\* interlink() without the back link: right->header.prev is left as it was.
interlinkForwardOnly(h, left, right) ==
    IF left # NULL THEN fragSetNext(h, left, right) ELSE h

interlink(h, left, right) ==
    LET h1 == IF left # NULL THEN fragSetNext(h, left, right) ELSE h
    IN  IF right # NULL THEN fragSetPrev(h1, right, left) ELSE h1

\* rebin() that puts the fragment after the head of a bin that is not
\* empty, not before it.
rebinAfterHead(h, fragment, fragment_size) ==
    LET idx  == log2Floor(fragment_size \div FRAGMENT_SIZE_MIN)
        head == h.bins[idx]
        nf   == fragNextFree(h, head)
        h1   == fragSetNextFree(h, fragment, nf)
        h2   == fragSetPrevFree(h1, fragment, head)
        h3   == fragSetNextFree(h2, head, fragment)
        h4   == IF nf # NULL THEN fragSetPrevFree(h3, nf, fragment) ELSE h3
        e1   == fragSetNextFree(h, fragment, NULL)
        e2   == fragSetPrevFree(e1, fragment, NULL)
    IN  IF head # NULL
        THEN h4
        ELSE [e2 EXCEPT !.bins[idx] = fragment,
                        !.nonempty_bin_mask = BitOr(h.nonempty_bin_mask, pow2(idx))]

\* rebin() that leaves prev_free of the old head of the bin as it is.
rebinNoBackLink(h, fragment, fragment_size) ==
    LET idx == log2Floor(fragment_size \div FRAGMENT_SIZE_MIN)
        h1  == fragSetNextFree(h, fragment, h.bins[idx])
        h2  == fragSetPrevFree(h1, fragment, NULL)
    IN  [h2 EXCEPT !.bins[idx] = fragment,
                   !.nonempty_bin_mask = BitOr(h.nonempty_bin_mask, pow2(idx))]

rebin(h, fragment, fragment_size) ==
    LET idx == log2Floor(fragment_size \div FRAGMENT_SIZE_MIN)
        h1  == fragSetNextFree(h, fragment, h.bins[idx])
        h2  == fragSetPrevFree(h1, fragment, NULL)
        h3  == IF h.bins[idx] # NULL THEN fragSetPrevFree(h2, h.bins[idx], fragment) ELSE h2
    IN  [h3 EXCEPT !.bins[idx] = fragment,
                   !.nonempty_bin_mask = BitOr(h.nonempty_bin_mask, pow2(idx))]

\* unbin() that never clears the bit of a bin it empties.
unbinKeepsMask(h, fragment, fragment_size) ==
    LET idx == log2Floor(fragment_size \div FRAGMENT_SIZE_MIN)
        nf  == fragNextFree(h, fragment)
        pf  == fragPrevFree(h, fragment)
        h1  == IF nf # NULL THEN fragSetPrevFree(h, nf, pf) ELSE h
        h2  == IF pf # NULL THEN fragSetNextFree(h1, pf, nf) ELSE h1
    IN  IF h.bins[idx] = fragment
        THEN [h2 EXCEPT !.bins[idx] = nf]
        ELSE h2

unbin(h, fragment, fragment_size) ==
    LET idx == log2Floor(fragment_size \div FRAGMENT_SIZE_MIN)
        nf  == fragNextFree(h, fragment)
        pf  == fragPrevFree(h, fragment)
        h1  == IF nf # NULL THEN fragSetPrevFree(h, nf, pf) ELSE h
        h2  == IF pf # NULL THEN fragSetNextFree(h1, pf, nf) ELSE h1
    IN  IF h.bins[idx] = fragment
        THEN [h2 EXCEPT !.bins[idx] = nf,
                        !.nonempty_bin_mask =
                            IF nf = NULL
                            THEN BitAnd(h.nonempty_bin_mask, BitNot(pow2(idx)))
                            ELSE h.nonempty_bin_mask]
        ELSE h2

\* ------------------------------------------------------- public API

\* The cells of the fragment area: every O1HEAP_ALIGNMENT-th address from
\* arena_start up to arena_end.
ArenaCells(arena_start, capacity) ==
    { arena_start + (O1HEAP_ALIGNMENT * i) : i \in 0 .. ((capacity \div O1HEAP_ALIGNMENT) - 1) }

\* The alignment of the capacity done upwards.
AlignCapacityUp(capacity) ==
    (((capacity + FRAGMENT_SIZE_MIN) - 1) \div FRAGMENT_SIZE_MIN) * FRAGMENT_SIZE_MIN

\* while ((capacity % FRAGMENT_SIZE_MIN) != 0) capacity--;
RECURSIVE AlignCapacity(_)
AlignCapacity(capacity) ==
    IF (capacity % FRAGMENT_SIZE_MIN) # 0 THEN AlignCapacity(capacity - 1) ELSE capacity

InitCapacity(size) ==
    LET capacity == SizeSub(size, INSTANCE_SIZE_PADDED)
    IN  AlignCapacity(IF capacity > FRAGMENT_SIZE_MAX THEN FRAGMENT_SIZE_MAX ELSE capacity)

\* The heap a failed o1heapInit leaves: no instance.
NoHeap ==
    [handle |-> NULL, mem |-> << >>, bins |-> << >>, nonempty_bin_mask |-> 0,
     arena_end |-> NULL,
     diagnostics |-> [capacity |-> 0, allocated |-> 0, peak_allocated |-> 0,
                      peak_request_size |-> 0, oom_count |-> 0]]

\* o1heapInit on an arena whose words all hold fill before the call.
o1heapInit(base, size, fill) ==
    IF (base # NULL) /\ ((base % O1HEAP_ALIGNMENT) = 0) /\ (size >= o1heapMinArenaSize)
    THEN
        LET capacity    == InitCapacity(size)
            arena_start == base + INSTANCE_SIZE_PADDED
            frag        == arena_start
            h0 == [handle            |-> base,
                   mem               |-> [c \in ArenaCells(arena_start, capacity) |-> <<fill, fill>>],
                   bins              |-> [i \in 0 .. (NUM_BINS_MAX - 1) |-> NULL],
                   nonempty_bin_mask |-> 0,
                   arena_end         |-> arena_start + capacity,
                   diagnostics       |-> [capacity |-> capacity, allocated |-> 0,
                                          peak_allocated |-> 0, peak_request_size |-> 0,
                                          oom_count |-> 0]]
            h1 == fragSetNext(h0, frag, NULL)
            h2 == fragSetPrev(h1, frag, NULL)
            h3 == fragSetUsed(h2, frag, FALSE)
            h4 == fragSetNextFree(h3, frag, NULL)
            h5 == fragSetPrevFree(h4, frag, NULL)
        IN  rebin(h5, frag, capacity)
    ELSE NoHeap

\* The diagnostics update of o1heapAllocate without the oom_count++.
AllocateDiagnosticsNoOom(h, amount, out) ==
    [h EXCEPT !.diagnostics.peak_request_size = larger(h.diagnostics.peak_request_size, amount)]

\* The diagnostics update of o1heapAllocate with the request stored in
\* peak_allocated instead of peak_request_size.
AllocateDiagnosticsWrongField(h, amount, out) ==
    [h EXCEPT !.diagnostics.peak_allocated = larger(h.diagnostics.peak_allocated, amount),
              !.diagnostics.oom_count =
                  IF (out = NULL) /\ (amount > 0)
                  THEN h.diagnostics.oom_count + 1
                  ELSE h.diagnostics.oom_count]

\* The diagnostics update of o1heapAllocate with peak_request_size taken
\* from the requests that were served only.
AllocateDiagnosticsPeakOfServed(h, amount, out) ==
    [h EXCEPT !.diagnostics.peak_request_size =
                  IF out # NULL
                  THEN larger(h.diagnostics.peak_request_size, amount)
                  ELSE h.diagnostics.peak_request_size,
              !.diagnostics.oom_count =
                  IF (out = NULL) /\ (amount > 0)
                  THEN h.diagnostics.oom_count + 1
                  ELSE h.diagnostics.oom_count]

\* The diagnostics update that ends o1heapAllocate: peak_request_size, and
\* oom_count when nothing was allocated for a positive amount.
AllocateDiagnostics(h, amount, out) ==
    [h EXCEPT !.diagnostics.peak_request_size = larger(h.diagnostics.peak_request_size, amount),
              !.diagnostics.oom_count =
                  IF (out = NULL) /\ (amount > 0)
                  THEN h.diagnostics.oom_count + 1
                  ELSE h.diagnostics.oom_count]

\* The split of o1heapAllocate with the new fragment placed one minimal
\* fragment after frag, whatever alloc_size is.
AllocateSplitAtMin(h, frag, alloc_size, leftover) ==
    LET new_frag == frag + FRAGMENT_SIZE_MIN
        h1 == fragSetUsed(h, new_frag, FALSE)
        h2 == interlink(h1, new_frag, fragGetNext(h1, frag))
        h3 == interlink(h2, frag, new_frag)
    IN  rebin(h3, new_frag, leftover)

\* o1heapAllocate without the split: the whole fragment is handed out.
AllocateSplitNone(h, frag, alloc_size, leftover) == h

\* The split of o1heapAllocate: the part of frag past alloc_size becomes a
\* free fragment of its own.
AllocateSplit(h, frag, alloc_size, leftover) ==
    LET new_frag == frag + alloc_size
        h1 == fragSetUsed(h, new_frag, FALSE)
        h2 == interlink(h1, new_frag, fragGetNext(h1, frag))
        h3 == interlink(h2, frag, new_frag)
    IN  rebin(h3, new_frag, leftover)

\* o1heapAllocate() that looks in the bin of the size asked for only:
\* candidate_bin_mask is the bit of optimal_bin_index, not that bit and all
\* the bits above it.
o1heapAllocateExactBinOnly(h, amount) ==
    LET capacity   == h.diagnostics.capacity
        in_range   == (amount > 0) /\ (amount <= SizeSub(capacity, O1HEAP_ALIGNMENT))
        alloc_size == roundUpToPowerOf2(SizeAdd(amount, O1HEAP_ALIGNMENT))
        alloc_bins == alloc_size \div FRAGMENT_SIZE_MIN
        optimal_bin_index  == log2Floor(alloc_bins)
        candidate_bin_mask == pow2(optimal_bin_index)
        suitable_bins      == BitAnd(h.nonempty_bin_mask, candidate_bin_mask)
        smallest_bin_mask  == BitAnd(suitable_bins, BitNot(SizeSub(suitable_bins, 1)))
        bin_index  == log2Floor(smallest_bin_mask)
        frag       == h.bins[bin_index]
        frag_size  == fragGetSize(h, frag)
        h1         == unbin(h, frag, frag_size)
        leftover   == SizeSub(frag_size, alloc_size)
        h2 == IF leftover >= FRAGMENT_SIZE_MIN
              THEN AllocateSplit(h1, frag, alloc_size, leftover)
              ELSE h1
        h3 == [h2 EXCEPT !.diagnostics.allocated = SizeAdd(h2.diagnostics.allocated, alloc_size)]
        h4 == [h3 EXCEPT !.diagnostics.peak_allocated =
                             larger(h3.diagnostics.peak_allocated, h3.diagnostics.allocated)]
        h5 == fragSetUsed(h4, frag, TRUE)
    IN  IF in_range /\ (smallest_bin_mask # 0)
        THEN [h |-> AllocateDiagnostics(h5, amount, frag + O1HEAP_ALIGNMENT),
              out |-> frag + O1HEAP_ALIGNMENT]
        ELSE [h |-> AllocateDiagnostics(h, amount, NULL), out |-> NULL]

\* o1heapAllocate() that adds the size of the fragment it found to
\* diagnostics.allocated, not the size it hands out.
o1heapAllocateCountsWholeFragment(h, amount) ==
    LET capacity   == h.diagnostics.capacity
        in_range   == (amount > 0) /\ (amount <= SizeSub(capacity, O1HEAP_ALIGNMENT))
        alloc_size == roundUpToPowerOf2(SizeAdd(amount, O1HEAP_ALIGNMENT))
        alloc_bins == alloc_size \div FRAGMENT_SIZE_MIN
        optimal_bin_index  == log2Floor(alloc_bins)
        candidate_bin_mask == BitNot(SizeSub(pow2(optimal_bin_index), 1))
        suitable_bins      == BitAnd(h.nonempty_bin_mask, candidate_bin_mask)
        smallest_bin_mask  == BitAnd(suitable_bins, BitNot(SizeSub(suitable_bins, 1)))
        bin_index  == log2Floor(smallest_bin_mask)
        frag       == h.bins[bin_index]
        frag_size  == fragGetSize(h, frag)
        h1         == unbin(h, frag, frag_size)
        leftover   == SizeSub(frag_size, alloc_size)
        h2 == IF leftover >= FRAGMENT_SIZE_MIN
              THEN AllocateSplit(h1, frag, alloc_size, leftover)
              ELSE h1
        h3 == [h2 EXCEPT !.diagnostics.allocated = SizeAdd(h2.diagnostics.allocated, frag_size)]
        h4 == [h3 EXCEPT !.diagnostics.peak_allocated =
                             larger(h3.diagnostics.peak_allocated, h3.diagnostics.allocated)]
        h5 == fragSetUsed(h4, frag, TRUE)
    IN  IF in_range /\ (smallest_bin_mask # 0)
        THEN [h |-> AllocateDiagnostics(h5, amount, frag + O1HEAP_ALIGNMENT),
              out |-> frag + O1HEAP_ALIGNMENT]
        ELSE [h |-> AllocateDiagnostics(h, amount, NULL), out |-> NULL]

\* [h |-> the heap after the call, out |-> the pointer returned].
o1heapAllocate(h, amount) ==
    LET capacity   == h.diagnostics.capacity
        in_range   == (amount > 0) /\ (amount <= SizeSub(capacity, O1HEAP_ALIGNMENT))
        alloc_size == roundUpToPowerOf2(SizeAdd(amount, O1HEAP_ALIGNMENT))
        alloc_bins == alloc_size \div FRAGMENT_SIZE_MIN
        optimal_bin_index  == log2Floor(alloc_bins)
        candidate_bin_mask == BitNot(SizeSub(pow2(optimal_bin_index), 1))
        suitable_bins      == BitAnd(h.nonempty_bin_mask, candidate_bin_mask)
        smallest_bin_mask  == BitAnd(suitable_bins, BitNot(SizeSub(suitable_bins, 1)))
        bin_index  == log2Floor(smallest_bin_mask)
        frag       == h.bins[bin_index]
        frag_size  == fragGetSize(h, frag)
        h1         == unbin(h, frag, frag_size)
        leftover   == SizeSub(frag_size, alloc_size)
        h2 == IF leftover >= FRAGMENT_SIZE_MIN
              THEN AllocateSplit(h1, frag, alloc_size, leftover)
              ELSE h1
        h3 == [h2 EXCEPT !.diagnostics.allocated = SizeAdd(h2.diagnostics.allocated, alloc_size)]
        h4 == [h3 EXCEPT !.diagnostics.peak_allocated =
                             larger(h3.diagnostics.peak_allocated, h3.diagnostics.allocated)]
        h5 == fragSetUsed(h4, frag, TRUE)
    IN  IF in_range /\ (smallest_bin_mask # 0)
        THEN [h |-> AllocateDiagnostics(h5, amount, frag + O1HEAP_ALIGNMENT),
              out |-> frag + O1HEAP_ALIGNMENT]
        ELSE [h |-> AllocateDiagnostics(h, amount, NULL), out |-> NULL]

\* The merge of o1heapFree that looks at the left neighbour only.
FreeMergeLeftOnly(h, frag, frag_size) ==
    LET prev      == fragGetPrev(h, frag)
        next      == fragGetNext(h, frag)
        join_left == (prev # NULL) /\ ~fragIsUsed(h, prev)
        prev_size == fragGetSize(h, prev)
    IN  IF join_left
        THEN LET h1 == unbin(h, prev, prev_size)
                 h2 == interlink(h1, prev, next)
             IN  rebin(h2, prev, SizeAdd(prev_size, frag_size))
        ELSE rebin(h, frag, frag_size)

\* o1heapFree without the merge: the fragment goes to its bin as it is.
FreeMergeNever(h, frag, frag_size) == rebin(h, frag, frag_size)

\* The merge of o1heapFree that joins the right neighbour without taking it
\* out of its bin.
FreeMergeKeepsNextBinned(h, frag, frag_size) ==
    LET prev       == fragGetPrev(h, frag)
        next       == fragGetNext(h, frag)
        join_left  == (prev # NULL) /\ ~fragIsUsed(h, prev)
        join_right == (next # NULL) /\ ~fragIsUsed(h, next)
        prev_size  == fragGetSize(h, prev)
        next_size  == fragGetSize(h, next)
    IN  IF join_left /\ join_right
        THEN LET h1 == unbin(h, prev, prev_size)
                 h3 == interlink(h1, prev, fragGetNext(h1, next))
             IN  rebin(h3, prev, SizeAdd(SizeAdd(prev_size, frag_size), next_size))
        ELSE IF join_left
        THEN LET h1 == unbin(h, prev, prev_size)
                 h2 == interlink(h1, prev, next)
             IN  rebin(h2, prev, SizeAdd(prev_size, frag_size))
        ELSE IF join_right
        THEN LET h2 == interlink(h, frag, fragGetNext(h, next))
             IN  rebin(h2, frag, SizeAdd(frag_size, next_size))
        ELSE rebin(h, frag, frag_size)

\* The merge of o1heapFree that, when only the fragment after frag is free,
\* puts the merged fragment into the bin of the size frag had alone.
FreeMergeBinsByOwnSize(h, frag, frag_size) ==
    LET prev       == fragGetPrev(h, frag)
        next       == fragGetNext(h, frag)
        join_left  == (prev # NULL) /\ ~fragIsUsed(h, prev)
        join_right == (next # NULL) /\ ~fragIsUsed(h, next)
        prev_size  == fragGetSize(h, prev)
        next_size  == fragGetSize(h, next)
    IN  IF join_left /\ join_right
        THEN LET h1 == unbin(h, prev, prev_size)
                 h2 == unbin(h1, next, next_size)
                 h3 == interlink(h2, prev, fragGetNext(h2, next))
             IN  rebin(h3, prev, SizeAdd(SizeAdd(prev_size, frag_size), next_size))
        ELSE IF join_left
        THEN LET h1 == unbin(h, prev, prev_size)
                 h2 == interlink(h1, prev, next)
             IN  rebin(h2, prev, SizeAdd(prev_size, frag_size))
        ELSE IF join_right
        THEN LET h1 == unbin(h, next, next_size)
                 h2 == interlink(h1, frag, fragGetNext(h1, next))
             IN  rebin(h2, frag, frag_size)
        ELSE rebin(h, frag, frag_size)

\* The merge of o1heapFree: frag, already marked free, joins its free
\* neighbours and the result goes to its bin.
FreeMerge(h, frag, frag_size) ==
    LET prev       == fragGetPrev(h, frag)
        next       == fragGetNext(h, frag)
        join_left  == (prev # NULL) /\ ~fragIsUsed(h, prev)
        join_right == (next # NULL) /\ ~fragIsUsed(h, next)
        prev_size  == fragGetSize(h, prev)
        next_size  == fragGetSize(h, next)
    IN  IF join_left /\ join_right
        THEN LET h1 == unbin(h, prev, prev_size)
                 h2 == unbin(h1, next, next_size)
                 h3 == interlink(h2, prev, fragGetNext(h2, next))
             IN  rebin(h3, prev, SizeAdd(SizeAdd(prev_size, frag_size), next_size))
        ELSE IF join_left
        THEN LET h1 == unbin(h, prev, prev_size)
                 h2 == interlink(h1, prev, next)
             IN  rebin(h2, prev, SizeAdd(prev_size, frag_size))
        ELSE IF join_right
        THEN LET h1 == unbin(h, next, next_size)
                 h2 == interlink(h1, frag, fragGetNext(h1, next))
             IN  rebin(h2, frag, SizeAdd(frag_size, next_size))
        ELSE rebin(h, frag, frag_size)

\* o1heapFree() without the diagnostics.allocated -= frag_size.
o1heapFreeKeepsAllocated(h, pointer) ==
    IF pointer # NULL
    THEN LET frag      == pointer - O1HEAP_ALIGNMENT
             frag_size == fragGetSize(h, frag)
         IN  FreeMerge(fragSetUsed(h, frag, FALSE), frag, frag_size)
    ELSE h

\* o1heapFree() that counts a null pointer as a failed request.
o1heapFreeCountsNull(h, pointer) ==
    IF pointer # NULL
    THEN LET frag      == pointer - O1HEAP_ALIGNMENT
             frag_size == fragGetSize(h, frag)
             h1 == fragSetUsed(h, frag, FALSE)
             h2 == [h1 EXCEPT !.diagnostics.allocated = SizeSub(h1.diagnostics.allocated, frag_size)]
         IN  FreeMerge(h2, frag, frag_size)
    ELSE [h EXCEPT !.diagnostics.oom_count = h.diagnostics.oom_count + 1]

\* o1heapFree() that does not clear the used flag of a fragment it is about
\* to merge into the free fragment before it, the header being dropped.
o1heapFreeKeepsFlagWhenMerged(h, pointer) ==
    IF pointer # NULL
    THEN LET frag      == pointer - O1HEAP_ALIGNMENT
             frag_size == fragGetSize(h, frag)
             prev      == fragGetPrev(h, frag)
             h1 == IF (prev # NULL) /\ ~fragIsUsed(h, prev)
                   THEN h
                   ELSE fragSetUsed(h, frag, FALSE)
             h2 == [h1 EXCEPT !.diagnostics.allocated = SizeSub(h1.diagnostics.allocated, frag_size)]
         IN  FreeMerge(h2, frag, frag_size)
    ELSE h

\* The heap after o1heapFree(handle, pointer).
o1heapFree(h, pointer) ==
    IF pointer # NULL
    THEN LET frag      == pointer - O1HEAP_ALIGNMENT
             frag_size == fragGetSize(h, frag)
             h1 == fragSetUsed(h, frag, FALSE)
             h2 == [h1 EXCEPT !.diagnostics.allocated = SizeSub(h1.diagnostics.allocated, frag_size)]
         IN  FreeMerge(h2, frag, frag_size)
    ELSE h

\* memmove() done as a copy that starts at the last word and reads the
\* memory as the words written before have left it, which is wrong when dst
\* is below src and the two ranges overlap.
RECURSIVE CopyFromLast(_, _, _, _)
CopyFromLast(m, dst, src, k) ==
    IF k < 0 THEN m
    ELSE CopyFromLast([c \in DOMAIN m |-> IF c = dst + k THEN m[src + k] ELSE m[c]],
                      dst, src, k - O1HEAP_ALIGNMENT)

memmoveFromLast(h, dst, src, n) ==
    [h EXCEPT !.mem = CopyFromLast(h.mem, dst, src, n - O1HEAP_ALIGNMENT)]

\* memmove(dst, src, n) and memcpy(dst, src, n) on whole cells: the n source
\* bytes are read as they were before the call.
memmove(h, dst, src, n) ==
    [h EXCEPT !.mem = [c \in DOMAIN h.mem |->
                          IF (c >= dst) /\ (c < dst + n) THEN h.mem[(c - dst) + src] ELSE h.mem[c]]]

\* The shrink of o1heapReallocate with the new fragment placed one minimal
\* fragment after frag, whatever new_frag_size is.
ReallocShrinkSplitsAtMin(h, frag, frag_size, new_frag_size, next, next_free, next_size) ==
    LET leftover == SizeSub(frag_size, new_frag_size)
        new_frag == frag + FRAGMENT_SIZE_MIN
        h1 == [h EXCEPT !.diagnostics.allocated = SizeSub(h.diagnostics.allocated, leftover)]
        h2 == fragSetUsed(h1, new_frag, FALSE)
        h3 == interlink(h2, frag, new_frag)
    IN  IF leftover >= FRAGMENT_SIZE_MIN
        THEN IF next_free
             THEN LET h4 == unbin(h3, next, next_size)
                      h5 == interlink(h4, new_frag, fragGetNext(h4, next))
                  IN  rebin(h5, new_frag, SizeAdd(leftover, next_size))
             ELSE rebin(interlink(h3, new_frag, next), new_frag, leftover)
        ELSE h

\* The shrink of o1heapReallocate that bins what it cuts off alone, also
\* when the fragment after it is free.
ReallocShrinkLeavesNext(h, frag, frag_size, new_frag_size, next, next_free, next_size) ==
    LET leftover == SizeSub(frag_size, new_frag_size)
        new_frag == frag + new_frag_size
        h1 == [h EXCEPT !.diagnostics.allocated = SizeSub(h.diagnostics.allocated, leftover)]
        h2 == fragSetUsed(h1, new_frag, FALSE)
        h3 == interlink(h2, frag, new_frag)
    IN  IF leftover >= FRAGMENT_SIZE_MIN
        THEN rebin(interlink(h3, new_frag, next), new_frag, leftover)
        ELSE h

\* SHRINK OR SAME SIZE: new_frag_size <= frag_size.
ReallocShrink(h, frag, frag_size, new_frag_size, next, next_free, next_size) ==
    LET leftover == SizeSub(frag_size, new_frag_size)
        new_frag == frag + new_frag_size
        h1 == [h EXCEPT !.diagnostics.allocated = SizeSub(h.diagnostics.allocated, leftover)]
        h2 == fragSetUsed(h1, new_frag, FALSE)
        h3 == interlink(h2, frag, new_frag)
    IN  IF leftover >= FRAGMENT_SIZE_MIN
        THEN IF next_free
             THEN LET h4 == unbin(h3, next, next_size)
                      h5 == interlink(h4, new_frag, fragGetNext(h4, next))
                  IN  rebin(h5, new_frag, SizeAdd(leftover, next_size))
             ELSE rebin(interlink(h3, new_frag, next), new_frag, leftover)
        ELSE h

\* The forward expansion of o1heapReallocate that never splits: the block
\* takes the whole free fragment after it, whatever is left over.
ReallocForwardTakesAll(h, frag, frag_size, new_frag_size, next, next_size) ==
    LET h1 == unbin(h, next, next_size)
        s1 == interlink(h1, frag, fragGetNext(h1, next))
        h2 == [s1 EXCEPT !.diagnostics.allocated = SizeAdd(s1.diagnostics.allocated, next_size)]
    IN  [h2 EXCEPT !.diagnostics.peak_allocated =
                      larger(h2.diagnostics.peak_allocated, h2.diagnostics.allocated)]

\* EXPAND FORWARD: next is free and frag_size + next_size >= new_frag_size.
ReallocForward(h, frag, frag_size, new_frag_size, next, next_size) ==
    LET h1       == unbin(h, next, next_size)
        leftover == SizeSub(SizeAdd(frag_size, next_size), new_frag_size)
        new_frag == frag + new_frag_size
        h2 == IF leftover >= FRAGMENT_SIZE_MIN
              THEN LET s1 == fragSetUsed(h1, new_frag, FALSE)
                       s2 == interlink(s1, new_frag, fragGetNext(s1, next))
                       s3 == interlink(s2, frag, new_frag)
                       s4 == rebin(s3, new_frag, leftover)
                   IN  [s4 EXCEPT !.diagnostics.allocated =
                                      SizeAdd(s4.diagnostics.allocated, SizeSub(new_frag_size, frag_size))]
              ELSE LET s1 == interlink(h1, frag, fragGetNext(h1, next))
                   IN  [s1 EXCEPT !.diagnostics.allocated = SizeAdd(s1.diagnostics.allocated, next_size)]
    IN  [h2 EXCEPT !.diagnostics.peak_allocated =
                      larger(h2.diagnostics.peak_allocated, h2.diagnostics.allocated)]

\* The backward expansion of o1heapReallocate that links what is left over
\* to next even when next was free and has been taken in.
ReallocBackwardLinksToNext(h, pointer, frag_size, new_frag_size, prev, prev_size, next, next_free, next_size) ==
    LET old_amount == SizeSub(frag_size, O1HEAP_ALIGNMENT)
        h1  == unbin(h, prev, prev_size)
        h2  == IF next_free THEN unbin(h1, next, next_size) ELSE h1
        out == prev + O1HEAP_ALIGNMENT
        h3  == memmove(h2, out, pointer, old_amount)
        h4  == fragSetUsed(h3, prev, TRUE)
        leftover == SizeSub(SizeAdd(SizeAdd(prev_size, frag_size), next_size), new_frag_size)
        new_frag == prev + new_frag_size
        h5 == IF leftover >= FRAGMENT_SIZE_MIN
              THEN LET s1 == fragSetUsed(h4, new_frag, FALSE)
                       s2 == interlink(s1, new_frag, next)
                       s3 == interlink(s2, prev, new_frag)
                       s4 == rebin(s3, new_frag, leftover)
                   IN  [s4 EXCEPT !.diagnostics.allocated =
                                      SizeAdd(s4.diagnostics.allocated, SizeSub(new_frag_size, frag_size))]
              ELSE LET s1 == interlink(h4, prev, next)
                   IN  [s1 EXCEPT !.diagnostics.allocated =
                                      SizeAdd(s1.diagnostics.allocated, SizeAdd(prev_size, next_size))]
    IN  [h5 EXCEPT !.diagnostics.peak_allocated =
                      larger(h5.diagnostics.peak_allocated, h5.diagnostics.allocated)]

\* EXPAND BACKWARD AND FORWARD: prev is free, next maybe free, and
\* prev_size + frag_size + next_size >= new_frag_size.  The payload moves to
\* prev + O1HEAP_ALIGNMENT.
ReallocBackward(h, pointer, frag_size, new_frag_size, prev, prev_size, next, next_free, next_size) ==
    LET old_amount == SizeSub(frag_size, O1HEAP_ALIGNMENT)
        h1  == unbin(h, prev, prev_size)
        h2  == IF next_free THEN unbin(h1, next, next_size) ELSE h1
        out == prev + O1HEAP_ALIGNMENT
        h3  == memmove(h2, out, pointer, old_amount)
        h4  == fragSetUsed(h3, prev, TRUE)
        leftover == SizeSub(SizeAdd(SizeAdd(prev_size, frag_size), next_size), new_frag_size)
        new_frag == prev + new_frag_size
        h5 == IF leftover >= FRAGMENT_SIZE_MIN
              THEN LET s1 == fragSetUsed(h4, new_frag, FALSE)
                       s2 == interlink(s1, new_frag, IF next_free THEN fragGetNext(s1, next) ELSE next)
                       s3 == interlink(s2, prev, new_frag)
                       s4 == rebin(s3, new_frag, leftover)
                   IN  [s4 EXCEPT !.diagnostics.allocated =
                                      SizeAdd(s4.diagnostics.allocated, SizeSub(new_frag_size, frag_size))]
              ELSE LET s1 == interlink(h4, prev, IF next_free THEN fragGetNext(h4, next) ELSE next)
                   IN  [s1 EXCEPT !.diagnostics.allocated =
                                      SizeAdd(s1.diagnostics.allocated, SizeAdd(prev_size, next_size))]
    IN  [h5 EXCEPT !.diagnostics.peak_allocated =
                      larger(h5.diagnostics.peak_allocated, h5.diagnostics.allocated)]

\* The last resort of o1heapReallocate returning the old pointer, which it
\* has freed, instead of the new block.
ReallocCopyReturnsOld(h, pointer, new_amount, old_amount) ==
    LET a == o1heapAllocate(h, new_amount)
    IN  IF a.out # NULL
        THEN [h    |-> o1heapFree(memmove(a.h, a.out, pointer, old_amount), pointer),
              out  |-> pointer, path |-> "copy", mid |-> a.h]
        ELSE [h |-> a.h, out |-> NULL, path |-> "copy_oom", mid |-> a.h]

\* The last resort of o1heapReallocate with peak_allocated taken from
\* allocated as it is when the call returns: the block it allocates before
\* it frees the old one leaves no trace.
ReallocCopyPeakAtReturn(h, pointer, new_amount, old_amount) ==
    LET a == o1heapAllocate(h, new_amount)
        f == o1heapFree(memmove(a.h, a.out, pointer, old_amount), pointer)
    IN  IF a.out # NULL
        THEN [h    |-> [f EXCEPT !.diagnostics.peak_allocated =
                                     larger(h.diagnostics.peak_allocated, f.diagnostics.allocated)],
              out  |-> a.out, path |-> "copy", mid |-> a.h]
        ELSE [h |-> a.h, out |-> NULL, path |-> "copy_oom", mid |-> a.h]

\* The last resort of o1heapReallocate freeing the old block whether or
\* not it has a new one.
ReallocCopyFreesOnFailure(h, pointer, new_amount, old_amount) ==
    LET a == o1heapAllocate(h, new_amount)
    IN  IF a.out # NULL
        THEN [h    |-> o1heapFree(memmove(a.h, a.out, pointer, old_amount), pointer),
              out  |-> a.out, path |-> "copy", mid |-> a.h]
        ELSE [h |-> o1heapFree(a.h, pointer), out |-> NULL, path |-> "copy_oom", mid |-> a.h]

\* The last resort of o1heapReallocate counting the failure that
\* o1heapAllocate has counted already.
ReallocCopyCountsTwice(h, pointer, new_amount, old_amount) ==
    LET a == o1heapAllocate(h, new_amount)
        b == [a.h EXCEPT !.diagnostics.oom_count = a.h.diagnostics.oom_count + 1]
    IN  IF a.out # NULL
        THEN [h    |-> o1heapFree(memmove(a.h, a.out, pointer, old_amount), pointer),
              out  |-> a.out, path |-> "copy", mid |-> a.h]
        ELSE [h |-> b, out |-> NULL, path |-> "copy_oom", mid |-> b]

\* ALLOCATE NEW BLOCK: o1heapAllocate, then copy and free the old block.
\* mid is the heap between the internal o1heapAllocate and o1heapFree.
ReallocCopy(h, pointer, new_amount, old_amount) ==
    LET a == o1heapAllocate(h, new_amount)
    IN  IF a.out # NULL
        THEN [h    |-> o1heapFree(memmove(a.h, a.out, pointer, old_amount), pointer),
              out  |-> a.out, path |-> "copy", mid |-> a.h]
        ELSE [h |-> a.h, out |-> NULL, path |-> "copy_oom", mid |-> a.h]

\* o1heapReallocate() with one thing changed, named by variant:
\* "drops_result": with a null pointer, the block allocated is not returned;
\* "zero_counts": with a zero amount, the null returned is counted as a
\*     failed request;
\* "backward_first": the backward expansion is tried before the forward one;
\* "limit_inclusive": an amount of capacity - O1HEAP_ALIGNMENT is refused.
ReallocateVariant(h, pointer, new_amount, variant) ==
    IF pointer = NULL
    THEN LET a == o1heapAllocate(h, new_amount)
         IN  [h |-> a.h, out |-> IF variant = "drops_result" THEN NULL ELSE a.out,
              path |-> "allocate", mid |-> a.h]
    ELSE IF new_amount = 0
    THEN LET f == o1heapFree(h, pointer)
             g == IF variant = "zero_counts"
                  THEN [f EXCEPT !.diagnostics.oom_count = f.diagnostics.oom_count + 1]
                  ELSE f
         IN  [h |-> g, out |-> NULL, path |-> "free", mid |-> g]
    ELSE
    LET h0 == [h EXCEPT !.diagnostics.peak_request_size =
                          larger(h.diagnostics.peak_request_size, new_amount)]
        limit == SizeSub(h0.diagnostics.capacity, O1HEAP_ALIGNMENT)
    IN  IF (new_amount > limit) \/ ((variant = "limit_inclusive") /\ (new_amount = limit))
        THEN LET h1 == [h0 EXCEPT !.diagnostics.oom_count = h0.diagnostics.oom_count + 1]
             IN  [h |-> h1, out |-> NULL, path |-> "too_large", mid |-> h1]
        ELSE
        LET frag          == pointer - O1HEAP_ALIGNMENT
            frag_size     == fragGetSize(h0, frag)
            old_amount    == SizeSub(frag_size, O1HEAP_ALIGNMENT)
            new_frag_size == roundUpToPowerOf2(SizeAdd(new_amount, O1HEAP_ALIGNMENT))
            prev          == fragGetPrev(h0, frag)
            next          == fragGetNext(h0, frag)
            prev_free     == (prev # NULL) /\ ~fragIsUsed(h0, prev)
            next_free     == (next # NULL) /\ ~fragIsUsed(h0, next)
            prev_size     == IF prev_free THEN fragGetSize(h0, prev) ELSE 0
            next_size     == IF next_free THEN fragGetSize(h0, next) ELSE 0
            forward       == next_free /\ (SizeAdd(frag_size, next_size) >= new_frag_size)
            backward      == prev_free
                             /\ (SizeAdd(SizeAdd(prev_size, frag_size), next_size) >= new_frag_size)
        IN  IF new_frag_size <= frag_size
            THEN LET r == ReallocShrink(h0, frag, frag_size, new_frag_size, next, next_free, next_size)
                 IN  [h |-> r, out |-> pointer, path |-> "shrink", mid |-> r]
            ELSE IF forward /\ ~((variant = "backward_first") /\ backward)
            THEN LET r == ReallocForward(h0, frag, frag_size, new_frag_size, next, next_size)
                 IN  [h |-> r, out |-> pointer, path |-> "forward", mid |-> r]
            ELSE IF backward
            THEN LET r == ReallocBackward(h0, pointer, frag_size, new_frag_size,
                                           prev, prev_size, next, next_free, next_size)
                 IN  [h |-> r, out |-> prev + O1HEAP_ALIGNMENT, path |-> "backward", mid |-> r]
            ELSE ReallocCopy(h0, pointer, new_amount, old_amount)

o1heapReallocateDropsResult(h, pointer, new_amount) ==
    ReallocateVariant(h, pointer, new_amount, "drops_result")

o1heapReallocateZeroCounts(h, pointer, new_amount) ==
    ReallocateVariant(h, pointer, new_amount, "zero_counts")

o1heapReallocateBackwardFirst(h, pointer, new_amount) ==
    ReallocateVariant(h, pointer, new_amount, "backward_first")

o1heapReallocateLimitInclusive(h, pointer, new_amount) ==
    ReallocateVariant(h, pointer, new_amount, "limit_inclusive")

\* [h |-> the heap after the call, out |-> the pointer returned,
\*  path |-> the branch that returned, mid |-> the heap at the one point
\*  inside the call where another public function has returned].
o1heapReallocate(h, pointer, new_amount) ==
    IF pointer = NULL
    THEN LET a == o1heapAllocate(h, new_amount)
         IN  [h |-> a.h, out |-> a.out, path |-> "allocate", mid |-> a.h]
    ELSE IF new_amount = 0
    THEN LET f == o1heapFree(h, pointer)
         IN  [h |-> f, out |-> NULL, path |-> "free", mid |-> f]
    ELSE
    LET h0 == [h EXCEPT !.diagnostics.peak_request_size =
                          larger(h.diagnostics.peak_request_size, new_amount)]
    IN  IF new_amount > SizeSub(h0.diagnostics.capacity, O1HEAP_ALIGNMENT)
        THEN LET h1 == [h0 EXCEPT !.diagnostics.oom_count = h0.diagnostics.oom_count + 1]
             IN  [h |-> h1, out |-> NULL, path |-> "too_large", mid |-> h1]
        ELSE
        LET frag          == pointer - O1HEAP_ALIGNMENT
            frag_size     == fragGetSize(h0, frag)
            old_amount    == SizeSub(frag_size, O1HEAP_ALIGNMENT)
            new_frag_size == roundUpToPowerOf2(SizeAdd(new_amount, O1HEAP_ALIGNMENT))
            prev          == fragGetPrev(h0, frag)
            next          == fragGetNext(h0, frag)
            prev_free     == (prev # NULL) /\ ~fragIsUsed(h0, prev)
            next_free     == (next # NULL) /\ ~fragIsUsed(h0, next)
            prev_size     == IF prev_free THEN fragGetSize(h0, prev) ELSE 0
            next_size     == IF next_free THEN fragGetSize(h0, next) ELSE 0
        IN  IF new_frag_size <= frag_size
            THEN LET r == ReallocShrink(h0, frag, frag_size, new_frag_size, next, next_free, next_size)
                 IN  [h |-> r, out |-> pointer, path |-> "shrink", mid |-> r]
            ELSE IF next_free /\ (SizeAdd(frag_size, next_size) >= new_frag_size)
            THEN LET r == ReallocForward(h0, frag, frag_size, new_frag_size, next, next_size)
                 IN  [h |-> r, out |-> pointer, path |-> "forward", mid |-> r]
            ELSE IF prev_free /\ (SizeAdd(SizeAdd(prev_size, frag_size), next_size) >= new_frag_size)
            THEN LET r == ReallocBackward(h0, pointer, frag_size, new_frag_size,
                                           prev, prev_size, next, next_free, next_size)
                 IN  [h |-> r, out |-> prev + O1HEAP_ALIGNMENT, path |-> "backward", mid |-> r]
            ELSE ReallocCopy(h0, pointer, new_amount, old_amount)

\* o1heapGetMaxAllocationSize() as the capacity less one header.
o1heapGetMaxAllocationSizeOfCapacity(h) ==
    SizeSub(h.diagnostics.capacity, O1HEAP_ALIGNMENT)

o1heapGetMaxAllocationSize(h) ==
    SizeSub(pow2(log2Floor(h.diagnostics.capacity)), O1HEAP_ALIGNMENT)

\* The loop of o1heapDoInvariantsHold over the bins.
BinMaskConsistent(h) ==
    \A i \in 0 .. (NUM_BINS_MAX - 1) :
        (BitAnd(h.nonempty_bin_mask, pow2(i)) # 0) = (h.bins[i] # NULL)

o1heapDoInvariantsHold(h) ==
    LET diag == h.diagnostics
    IN  /\ BinMaskConsistent(h)
        /\ diag.capacity <= FRAGMENT_SIZE_MAX
        /\ diag.capacity >= FRAGMENT_SIZE_MIN
        /\ (diag.capacity % FRAGMENT_SIZE_MIN) = 0
        /\ diag.allocated <= diag.capacity
        /\ (diag.allocated % FRAGMENT_SIZE_MIN) = 0
        /\ diag.peak_allocated <= diag.capacity
        /\ diag.peak_allocated >= diag.allocated
        /\ (diag.peak_allocated % FRAGMENT_SIZE_MIN) = 0
        /\ ((diag.peak_request_size < diag.capacity) \/ (diag.oom_count > 0))
        /\ IF diag.peak_request_size = 0
           THEN (diag.peak_allocated = 0) /\ (diag.allocated = 0) /\ (diag.oom_count = 0)
           ELSE (SizeAdd(diag.peak_request_size, O1HEAP_ALIGNMENT) <= diag.peak_allocated)
                \/ (diag.oom_count > 0)

o1heapGetDiagnostics(h) == h.diagnostics

\* ------------------------------------------------------ state machine

VARIABLES
    handle,             \* the O1HeapInstance* returned by o1heapInit
    mem,                \* the fragment area of the arena, cell by cell
    bins,               \* O1HeapInstance.bins
    nonempty_bin_mask,  \* O1HeapInstance.nonempty_bin_mask
    arena_end,          \* O1HeapInstance.arena_end
    diagnostics,        \* O1HeapInstance.diagnostics
    live,               \* the caller's pointers: returned and not yet freed or moved
    last,               \* the last public call: its arguments, result and branch
    snapshot_max,       \* the largest allocated the caller has seen between calls
    allocated_high,     \* the largest value diagnostics.allocated was left at by
                        \* o1heapInit or by any API function, the calls that
                        \* o1heapReallocate makes included
    intact              \* whether the caller of o1heapReallocate has found the
                        \* bytes it had written to the block where they belong

vars == <<handle, mem, bins, nonempty_bin_mask, arena_end, diagnostics,
          live, last, snapshot_max, allocated_high, intact>>

Heap ==
    [handle |-> handle, mem |-> mem, bins |-> bins,
     nonempty_bin_mask |-> nonempty_bin_mask, arena_end |-> arena_end,
     diagnostics |-> diagnostics]

\* The first fragment: the arena starts right after the instance.
ArenaStart(h) == h.handle + INSTANCE_SIZE_PADDED

\* The fragments reached from frag through header.next, in that order; fuel
\* bounds the walk by the number of cells.
RECURSIVE ChainFrom(_, _, _)
ChainFrom(h, frag, fuel) ==
    IF (frag = NULL) \/ (fuel = 0) \/ (frag \notin DOMAIN h.mem)
    THEN << >>
    ELSE <<frag>> \o ChainFrom(h, fragGetNext(h, frag), fuel - 1)

Chain(h) == ChainFrom(h, ArenaStart(h), Cardinality(DOMAIN h.mem))

Range(seq) == { seq[i] : i \in DOMAIN seq }

\* The cells whose contents last from one call to the next: the header of
\* every fragment and the bin links of the free ones.
KeptCells(h) ==
    LET frags == Range(Chain(h))
    IN  frags
        \cup { f + O1HEAP_ALIGNMENT : f \in { g \in frags : ~fragIsUsed(h, g) } }

\* What a cell that is not kept reads as.
Indeterminate == <<SIZE_MAX, SIZE_MAX>>

\* The heap between two calls: what is not kept is indeterminate again.
Settle(h) ==
    LET kept == KeptCells(h)
    IN  [h EXCEPT !.mem = [c \in DOMAIN h.mem |-> IF c \in kept THEN h.mem[c] ELSE Indeterminate]]

\* The payload cells of the block at pointer p: from p up to the end of its
\* fragment.
PayloadCells(h, p) ==
    { c \in DOMAIN h.mem :
          (c >= p) /\ (c < (p - O1HEAP_ALIGNMENT) + fragGetSize(h, p - O1HEAP_ALIGNMENT)) }

\* The caller writes to the blocks it holds before it makes a call: every
\* cell of the payload of p gets two words that are found in no other cell,
\* the second one odd.
Fill(h, pointers) ==
    LET owner == [c \in DOMAIN h.mem |-> { p \in pointers : c \in PayloadCells(h, p) }]
    IN  [h EXCEPT !.mem = [c \in DOMAIN h.mem |->
                              IF owner[c] # {}
                              THEN <<CHOOSE p \in owner[c] : TRUE, c + 1>>
                              ELSE h.mem[c]]]

\* What the caller reads after the call: the first n bytes at dst in the
\* heap after are the first n bytes that were at src in the heap before.
PayloadKept(before, after, src, dst, n) ==
    \A c \in DOMAIN before.mem :
        ((c >= src) /\ (c < src + n)) =>
            /\ ((c - src) + dst) \in DOMAIN after.mem
            /\ after.mem[(c - src) + dst] = before.mem[c]

\* The arena base addresses, the arena sizes and the contents of the arena
\* before o1heapInit (every word zero, or every bit set) that the model
\* starts from.
InitBases == { 16 * O1HEAP_ALIGNMENT }

InitSizes == { o1heapMinArenaSize + n : n \in 0 .. ((MaxCapUnits * FRAGMENT_SIZE_MIN) - 1) }

ArenaFill == { 0, SIZE_MAX }

\* The amounts the caller asks for: zero, the largest amount that fits a
\* minimal fragment, and for each power-of-two fragment size the smallest
\* amount that does not fit it.
Amounts ==
    {0, FRAGMENT_SIZE_MIN - O1HEAP_ALIGNMENT}
    \cup { ((pow2(i) * FRAGMENT_SIZE_MIN) - O1HEAP_ALIGNMENT) + 1 : i \in 0 .. log2Floor(MaxCapUnits) }

Call(op, pointer, amount, out, path) ==
    [op |-> op, pointer |-> pointer, amount |-> amount, out |-> out, path |-> path]

\* The heap h a call returns with becomes the state of the instance.
Becomes(h) ==
    /\ handle' = h.handle
    /\ mem' = Settle(h).mem
    /\ bins' = h.bins
    /\ nonempty_bin_mask' = h.nonempty_bin_mask
    /\ arena_end' = h.arena_end
    /\ diagnostics' = h.diagnostics

Init ==
    \E base \in InitBases, size \in InitSizes, fill \in ArenaFill :
        \E h \in { Settle(o1heapInit(base, size, fill)) } :
            /\ h.handle # NULL
            /\ handle = h.handle
            /\ mem = h.mem
            /\ bins = h.bins
            /\ nonempty_bin_mask = h.nonempty_bin_mask
            /\ arena_end = h.arena_end
            /\ diagnostics = h.diagnostics
            /\ live = {}
            /\ last = Call("init", NULL, 0, h.handle, "init")
            /\ snapshot_max = h.diagnostics.allocated
            /\ allocated_high = h.diagnostics.allocated
            /\ intact = TRUE

Allocate ==
    \E amount \in Amounts :
        \E r \in { o1heapAllocate(Heap, amount) } :
            /\ ((r.out = NULL) /\ (amount > 0)) => (diagnostics.oom_count < MaxOom)
            /\ Becomes(r.h)
            /\ live' = IF r.out # NULL THEN live \cup {r.out} ELSE live
            /\ last' = Call("allocate", NULL, amount, r.out,
                            IF r.out # NULL THEN "allocated"
                            ELSE IF amount = 0 THEN "zero" ELSE "oom")
            /\ snapshot_max' = larger(snapshot_max, r.h.diagnostics.allocated)
            /\ allocated_high' = larger(allocated_high, r.h.diagnostics.allocated)
            /\ intact' = TRUE

Free ==
    \E pointer \in live \cup {NULL} :
        \E h \in { o1heapFree(Heap, pointer) } :
            /\ Becomes(h)
            /\ live' = live \ {pointer}
            /\ last' = Call("free", pointer, 0, NULL,
                            IF pointer = NULL THEN "null" ELSE "freed")
            /\ snapshot_max' = larger(snapshot_max, h.diagnostics.allocated)
            /\ allocated_high' = larger(allocated_high, h.diagnostics.allocated)
            /\ intact' = TRUE

\* The bytes of the block at pointer that o1heapReallocate has to keep:
\* all of them when it returns NULL, and otherwise as many as the old and
\* the new fragment both hold.
KeptBytes(before, after, pointer, out) ==
    LET old_amount == SizeSub(fragGetSize(before, pointer - O1HEAP_ALIGNMENT), O1HEAP_ALIGNMENT)
        new_amount == SizeSub(fragGetSize(after, out - O1HEAP_ALIGNMENT), O1HEAP_ALIGNMENT)
    IN  IF out = NULL THEN old_amount
        ELSE IF new_amount < old_amount THEN new_amount ELSE old_amount

Reallocate ==
    \E before \in { Fill(Heap, live) } :
    \E pointer \in live \cup {NULL}, new_amount \in Amounts :
        \E r \in { o1heapReallocate(before, pointer, new_amount) } :
            /\ ((r.out = NULL) /\ (new_amount > 0)) => (diagnostics.oom_count < MaxOom)
            /\ Becomes(r.h)
            /\ live' = IF r.out # NULL
                       THEN (live \ {pointer}) \cup {r.out}
                       ELSE IF new_amount = 0 THEN live \ {pointer} ELSE live
            /\ last' = Call("reallocate", pointer, new_amount, r.out, r.path)
            /\ snapshot_max' = larger(snapshot_max, r.h.diagnostics.allocated)
            /\ allocated_high' = larger(larger(allocated_high, r.mid.diagnostics.allocated),
                                        r.h.diagnostics.allocated)
            /\ intact' = IF (pointer = NULL) \/ (new_amount = 0) THEN TRUE
                         ELSE PayloadKept(before, r.h, pointer,
                                          IF r.out = NULL THEN pointer ELSE r.out,
                                          KeptBytes(before, r.h, pointer, r.out))

Next == Allocate \/ Free \/ Reallocate

Spec == Init /\ [][Next]_vars

\* ------------------------------------- o1heapInit on any arguments

\* The base addresses o1heapInit is called with: null, misaligned, aligned.
InitCallBases ==
    {NULL} \cup { b + d : b \in InitBases, d \in {0, PtrBytes, O1HEAP_ALIGNMENT} }
           \cup { b - PtrBytes : b \in InitBases }

\* The sizes o1heapInit is called with: every size from zero to the largest
\* arena of Spec, the sizes around the one that gives FRAGMENT_SIZE_MAX, and
\* the largest size there is.
InitCallSizes ==
    (0 .. (o1heapMinArenaSize + (MaxCapUnits * FRAGMENT_SIZE_MIN)))
    \cup { ((INSTANCE_SIZE_PADDED + FRAGMENT_SIZE_MAX) + d) - 1 : d \in 0 .. (FRAGMENT_SIZE_MIN + 1) }
    \cup {SIZE_MAX}

\* Before the call: an arena at last.pointer of last.amount bytes, and no
\* instance.
ArenaInit ==
    \E base \in InitCallBases, size \in InitCallSizes :
        /\ handle = NoHeap.handle
        /\ mem = NoHeap.mem
        /\ bins = NoHeap.bins
        /\ nonempty_bin_mask = NoHeap.nonempty_bin_mask
        /\ arena_end = NoHeap.arena_end
        /\ diagnostics = NoHeap.diagnostics
        /\ live = {}
        /\ last = Call("arena", base, size, NULL, "arena")
        /\ snapshot_max = 0
        /\ allocated_high = 0
        /\ intact = TRUE

InitCall ==
    /\ last.op = "arena"
    /\ \E fill \in ArenaFill :
           \E h \in { o1heapInit(last.pointer, last.amount, fill) } :
               /\ Becomes(h)
               /\ live' = {}
               /\ last' = Call("init", last.pointer, last.amount, h.handle,
                               IF h.handle = NULL THEN "refused" ELSE "init")
               /\ snapshot_max' = h.diagnostics.allocated
               /\ allocated_high' = h.diagnostics.allocated
               /\ intact' = TRUE

NextInit == InitCall

SpecInit == ArenaInit /\ [][NextInit]_vars

\* ------------------------------------------- the heap as the claims see it

\* The fragments of the arena, size(F) and the used flag, in the state the
\* last call left.
Fragments == Range(Chain(Heap))

SizeOf(frag) == fragGetSize(Heap, frag)

UsedFragments == { f \in Fragments : fragIsUsed(Heap, f) }

FreeFragments == Fragments \ UsedFragments

RECURSIVE SumOfSizes(_)
SumOfSizes(frags) ==
    IF frags = {} THEN 0
    ELSE LET f == CHOOSE g \in frags : TRUE
         IN  SizeOf(f) + SumOfSizes(frags \ {f})

\* The byte ranges [lo, hi) and [lo2, hi2) have a byte in common.
Overlap(lo, hi, lo2, hi2) == (lo < hi2) /\ (lo2 < hi)

\* The payload of the live pointer p ends where its fragment ends.
PayloadEnd(p) == (p - O1HEAP_ALIGNMENT) + SizeOf(p - O1HEAP_ALIGNMENT)

\* The fragments reached from frag through next_free, in that order.
RECURSIVE BinListFrom(_, _)
BinListFrom(frag, fuel) ==
    IF (frag = NULL) \/ (fuel = 0) THEN << >>
    ELSE IF (frag + O1HEAP_ALIGNMENT) \notin DOMAIN mem THEN <<frag>>
    ELSE <<frag>> \o BinListFrom(fragNextFree(Heap, frag), fuel - 1)

BinList(i) == BinListFrom(bins[i], Cardinality(DOMAIN mem))

\* s = FRAGMENT_SIZE_MIN * 2^k for some k >= 0.
IsPowerOfTwoMultiple(s) ==
    \E k \in 0 .. (NUM_BINS_MAX - 1) : s = FRAGMENT_SIZE_MIN * (2 ^ k)

\* ------------------------------------------------------------ claims

\* C1: after every public call diagnostics.allocated is the sum of the sizes
\* (header included) of the fragments whose used flag is set, and it is at
\* most the capacity.
AllocatedIsSumOfUsed ==
    /\ diagnostics.allocated = SumOfSizes(UsedFragments)
    /\ diagnostics.allocated <= diagnostics.capacity

\* A backward expansion has returned with two used fragments in the arena.
AllocatedAfterBackward ==
    /\ last.path = "backward"
    /\ Cardinality(UsedFragments) >= 2
    /\ diagnostics.allocated = SumOfSizes(UsedFragments)

\* C2: the payloads [p, p + size(F) - O1HEAP_ALIGNMENT) of the live
\* pointers are pairwise disjoint, and none of them has a byte in common
\* with the header of a fragment or with the next_free and prev_free words
\* of a free fragment.
LivePayloadsDisjoint ==
    /\ \A p \in live : (p - O1HEAP_ALIGNMENT) \in Fragments
    /\ \A p, q \in live :
           (p # q) => ~Overlap(p, PayloadEnd(p), q, PayloadEnd(q))
    /\ \A p \in live : \A f \in Fragments :
           ~Overlap(p, PayloadEnd(p), f, f + O1HEAP_ALIGNMENT)
    /\ \A p \in live : \A f \in FreeFragments :
           ~Overlap(p, PayloadEnd(p), f + O1HEAP_ALIGNMENT, f + (2 * O1HEAP_ALIGNMENT))

\* A reallocation has moved a block to a new fragment while another block
\* is live and a free fragment is in a bin.
LivePayloadsAfterCopy ==
    /\ last.path = "copy"
    /\ Cardinality(live) >= 2
    /\ FreeFragments # {}

\* C3: a non-null pointer that o1heapAllocate or o1heapReallocate returns
\* is a multiple of O1HEAP_ALIGNMENT, lies in the arena after the instance,
\* and the amount asked for fits between it and the end of its fragment,
\* which is within the arena.
ReturnedPointerFits ==
    ((last.op \in {"allocate", "reallocate"}) /\ (last.out # NULL)) =>
        /\ (last.out % O1HEAP_ALIGNMENT) = 0
        /\ ArenaStart(Heap) <= last.out
        /\ last.out < arena_end
        /\ (last.out - O1HEAP_ALIGNMENT) \in Fragments
        /\ last.out + last.amount <= PayloadEnd(last.out)
        /\ PayloadEnd(last.out) <= arena_end

\* o1heapAllocate has returned a block for an amount that fills its
\* fragment to the last byte, and the fragment ends where the arena ends.
ReturnedPointerTightFit ==
    /\ last.op = "allocate"
    /\ last.out # NULL
    /\ last.out + last.amount = PayloadEnd(last.out)
    /\ PayloadEnd(last.out) = arena_end
    /\ last.out > ArenaStart(Heap) + O1HEAP_ALIGNMENT

\* C4: after every public call no two fragments that are neighbours in
\* address order are both free.
NoAdjacentFreeFragments ==
    \A f \in FreeFragments :
        (fragGetNext(Heap, f) # NULL) => (fragGetNext(Heap, f) \notin FreeFragments)

\* o1heapFree has left one free fragment that spans an arena of three
\* minimal fragments: no allocation takes that much, so the block freed has
\* been merged with a free neighbour.
MergedByFree ==
    /\ last.path = "freed"
    /\ diagnostics.capacity = 3 * FRAGMENT_SIZE_MIN
    /\ FreeFragments = {ArenaStart(Heap)}
    /\ Fragments = {ArenaStart(Heap)}

\* C5: bins[i] is null iff bit i of nonempty_bin_mask is clear, and every
\* fragment reached from bins[i] through next_free is a free fragment whose
\* size s satisfies FRAGMENT_SIZE_MIN * 2^i <= s < FRAGMENT_SIZE_MIN * 2^(i+1).
BinsHoldFreeFragmentsOfTheirClass ==
    \A i \in 0 .. (NUM_BINS_MAX - 1) :
        /\ (bins[i] = NULL) <=> (BitAnd(nonempty_bin_mask, pow2(i)) = 0)
        /\ \A n \in DOMAIN BinList(i) :
               LET f == BinList(i)[n]
               IN  /\ f \in FreeFragments
                   /\ (FRAGMENT_SIZE_MIN * (2 ^ i)) <= SizeOf(f)
                   /\ SizeOf(f) < (FRAGMENT_SIZE_MIN * (2 ^ (i + 1)))

\* o1heapFree has put a second fragment in a bin.
TwoFragmentsInOneBin ==
    /\ last.path = "freed"
    /\ \E i \in 0 .. (NUM_BINS_MAX - 1) : Len(BinList(i)) >= 2

\* C6: header.next from the fragment right after the instance visits
\* fragments at strictly increasing addresses until null, prev(next(F)) = F
\* for each and the first has no prev; every size is a multiple of
\* FRAGMENT_SIZE_MIN and at most the capacity, and the sizes add up to the
\* capacity.
ChainCoversArena ==
    LET chain == Chain(Heap)
    IN  /\ Len(chain) >= 1
        /\ chain[1] = ArenaStart(Heap)
        /\ fragGetPrev(Heap, chain[1]) = NULL
        /\ fragGetNext(Heap, chain[Len(chain)]) = NULL
        /\ \A i \in 1 .. (Len(chain) - 1) :
               /\ chain[i] < chain[i + 1]
               /\ fragGetPrev(Heap, chain[i + 1]) = chain[i]
        /\ \A f \in Fragments :
               /\ (SizeOf(f) % FRAGMENT_SIZE_MIN) = 0
               /\ SizeOf(f) <= diagnostics.capacity
        /\ SumOfSizes(Fragments) = diagnostics.capacity

\* A forward expansion has returned and the chain has three fragments.
ChainAfterForward ==
    /\ last.path = "forward"
    /\ Len(Chain(Heap)) >= 3

\* C7, as the spec states it: the size of every fragment, free or used, is
\* FRAGMENT_SIZE_MIN * 2^k for some k >= 0, and lies between
\* FRAGMENT_SIZE_MIN and the capacity.
EveryFragmentIsPowerOfTwo ==
    \A f \in Fragments :
        /\ IsPowerOfTwoMultiple(SizeOf(f))
        /\ FRAGMENT_SIZE_MIN <= SizeOf(f)
        /\ SizeOf(f) <= diagnostics.capacity

\* C7, amended: the size of every fragment is a multiple of
\* FRAGMENT_SIZE_MIN between FRAGMENT_SIZE_MIN and the capacity, and the
\* size of every used fragment is FRAGMENT_SIZE_MIN * 2^k for some k >= 0.
UsedFragmentIsPowerOfTwo ==
    \A f \in Fragments :
        /\ (SizeOf(f) % FRAGMENT_SIZE_MIN) = 0
        /\ FRAGMENT_SIZE_MIN <= SizeOf(f)
        /\ SizeOf(f) <= diagnostics.capacity
        /\ (f \in UsedFragments) => IsPowerOfTwoMultiple(SizeOf(f))

\* A used fragment sits next to a free fragment of three minimal fragments.
FreeFragmentOfThree ==
    /\ UsedFragments # {}
    /\ \E f \in FreeFragments : SizeOf(f) = 3 * FRAGMENT_SIZE_MIN

\* C8: allocated <= peak_allocated <= capacity in every state, and no
\* public call, successful or not, decreases peak_allocated.
PeakAllocatedBoundedAndMonotonic ==
    /\ [](/\ diagnostics.allocated <= diagnostics.peak_allocated
          /\ diagnostics.peak_allocated <= diagnostics.capacity)
    /\ [][diagnostics'.peak_allocated >= diagnostics.peak_allocated]_vars

\* o1heapFree has returned with allocated below a peak that is below the
\* capacity.
PeakAboveAllocated ==
    /\ last.op = "free"
    /\ 0 < diagnostics.allocated
    /\ diagnostics.allocated < diagnostics.peak_allocated
    /\ diagnostics.peak_allocated < diagnostics.capacity

\* C9, as the spec states it: peak_allocated is the largest value of
\* allocated that a caller sees between operations, after o1heapInit and
\* after each completed call; the block that the last resort of
\* o1heapReallocate allocates before it frees the old one does not raise it.
PeakIsLargestSnapshot == diagnostics.peak_allocated = snapshot_max

\* C9, amended: peak_allocated is the largest value allocated has had at
\* the return of o1heapInit or of any API function, the o1heapAllocate that
\* o1heapReallocate calls as its last resort included; it is never less
\* than the largest value seen between operations.
PeakIsLargestAllocated ==
    /\ diagnostics.peak_allocated = allocated_high
    /\ diagnostics.peak_allocated >= snapshot_max

\* The last resort of o1heapReallocate has moved a block, and the peak is
\* above every value of allocated seen between operations.
PeakRaisedByCopy ==
    /\ last.path = "copy"
    /\ diagnostics.peak_allocated > snapshot_max

\* C10: o1heapDoInvariantsHold returns true after o1heapInit and after
\* every o1heapAllocate, o1heapFree and o1heapReallocate.
InvariantsHoldAfterEveryCall == o1heapDoInvariantsHold(Heap)

\* o1heapReallocate has refused an amount no arena of this capacity holds:
\* peak_request_size is not below the capacity and oom_count is positive.
InvariantsHoldAfterTooLarge ==
    /\ last.path = "too_large"
    /\ diagnostics.peak_request_size >= diagnostics.capacity
    /\ diagnostics.oom_count > 0
    /\ o1heapDoInvariantsHold(Heap)

\* ------------------------------------------ one call, before and after

\* The heap the step leaves.
After ==
    [handle |-> handle', mem |-> mem', bins |-> bins',
     nonempty_bin_mask |-> nonempty_bin_mask', arena_end |-> arena_end',
     diagnostics |-> diagnostics']

\* The step leaves the fragment chain, the bin lists, the mask, the caller's
\* pointers, capacity, allocated and peak_allocated as they were.
HeapUntouched ==
    /\ handle' = handle
    /\ mem' = mem
    /\ bins' = bins
    /\ nonempty_bin_mask' = nonempty_bin_mask
    /\ arena_end' = arena_end
    /\ live' = live
    /\ diagnostics'.capacity = diagnostics.capacity
    /\ diagnostics'.allocated = diagnostics.allocated
    /\ diagnostics'.peak_allocated = diagnostics.peak_allocated

\* The least power of two that is not below x, and the greatest one that is
\* not above it.
LeastPowerOfTwoFrom(x) ==
    LET k == CHOOSE i \in 0 .. SIZE_BITS :
                 ((2 ^ i) >= x) /\ (\A j \in 0 .. SIZE_BITS : ((2 ^ j) >= x) => (j >= i))
    IN  2 ^ k

GreatestPowerOfTwoUpTo(x) ==
    LET k == CHOOSE i \in 0 .. SIZE_BITS :
                 ((2 ^ i) <= x) /\ (\A j \in 0 .. SIZE_BITS : ((2 ^ j) <= x) => (j <= i))
    IN  2 ^ k

\* C11: an o1heapAllocate that returns null leaves the fragment chain, the
\* bin lists, the mask, allocated and peak_allocated as they were; oom_count
\* and peak_request_size are all that may differ, and not when the amount
\* is zero.
FailedAllocateChangesNothing ==
    [][((last'.op = "allocate") /\ (last'.out = NULL)) =>
           /\ HeapUntouched
           /\ (last'.amount = 0) => (diagnostics' = diagnostics)
      ]_vars

\* o1heapAllocate has failed on an arena that is allocated to the last byte.
FailedAllocateOnFullHeap ==
    /\ last.path = "oom"
    /\ last.amount <= diagnostics.capacity - O1HEAP_ALIGNMENT
    /\ diagnostics.allocated = diagnostics.capacity
    /\ diagnostics.oom_count = 1

\* C12: an o1heapReallocate of a live block for a positive amount that
\* returns null leaves the block live, with the fragment size and the
\* payload bytes it had, and leaves the fragment chain, the bin lists, the
\* mask, allocated and peak_allocated as they were.
FailedReallocateKeepsBlock ==
    [][((last'.op = "reallocate") /\ (last'.pointer # NULL)
            /\ (last'.amount > 0) /\ (last'.out = NULL)) =>
           /\ HeapUntouched
           /\ last'.pointer \in live'
           /\ fragIsUsed(After, last'.pointer - O1HEAP_ALIGNMENT)
           /\ fragGetSize(After, last'.pointer - O1HEAP_ALIGNMENT)
                  = fragGetSize(Heap, last'.pointer - O1HEAP_ALIGNMENT)
           /\ intact'
      ]_vars

\* The last resort of o1heapReallocate has found no memory for an amount
\* the arena could hold, and the block is still live.
FailedReallocateByCopy ==
    /\ last.path = "copy_oom"
    /\ last.amount <= diagnostics.capacity - O1HEAP_ALIGNMENT
    /\ last.pointer \in live
    /\ intact

\* C13: oom_count goes up by exactly one in every o1heapAllocate and
\* o1heapReallocate that returns null for a positive amount, whichever way
\* it fails, and every other call leaves it as it was.
OomCountCountsFailures ==
    [][diagnostics'.oom_count =
           diagnostics.oom_count
           + (IF (last'.op \in {"allocate", "reallocate"})
                     /\ (last'.out = NULL) /\ (last'.amount > 0)
              THEN 1 ELSE 0)
      ]_vars

\* A call has succeeded after one has failed: the count is still one.
OomCountAfterSuccess ==
    /\ diagnostics.oom_count = 1
    /\ last.path \in {"allocated", "forward", "backward", "copy"}

\* C14: for 0 < amount <= capacity - O1HEAP_ALIGNMENT, o1heapAllocate
\* returns a block iff some free fragment is at least as large as the least
\* power of two that holds amount + O1HEAP_ALIGNMENT; the fragment it takes
\* is the head of a bin and is that large.
AllocateSucceedsIffFragmentFits ==
    [][((last'.op = "allocate") /\ (last'.amount > 0)
            /\ (last'.amount <= diagnostics.capacity - O1HEAP_ALIGNMENT)) =>
           LET need == LeastPowerOfTwoFrom(last'.amount + O1HEAP_ALIGNMENT)
           IN  /\ (last'.out # NULL) <=> (\E f \in FreeFragments : SizeOf(f) >= need)
               /\ (last'.out # NULL) =>
                      /\ \E i \in 0 .. (NUM_BINS_MAX - 1) : bins[i] = last'.out - O1HEAP_ALIGNMENT
                      /\ SizeOf(last'.out - O1HEAP_ALIGNMENT) >= need
      ]_vars

\* o1heapAllocate has failed although the free fragments together are as
\* large as the fragment it needed: none of them is on its own.
FailedAllocateByFragmentation ==
    /\ last.path = "oom"
    /\ last.amount <= diagnostics.capacity - O1HEAP_ALIGNMENT
    /\ SumOfSizes(FreeFragments) >= LeastPowerOfTwoFrom(last.amount + O1HEAP_ALIGNMENT)

\* C15: a successful o1heapAllocate turns exactly one fragment into a used
\* one, of exactly need bytes, need the least power of two that holds
\* amount + O1HEAP_ALIGNMENT; it adds need to allocated, makes
\* peak_allocated the larger of peak_allocated and allocated, and returns
\* the address of the fragment plus O1HEAP_ALIGNMENT.
AllocateTakesExactFragment ==
    [][((last'.op = "allocate") /\ (last'.out # NULL)) =>
           LET need == LeastPowerOfTwoFrom(last'.amount + O1HEAP_ALIGNMENT)
               frag == last'.out - O1HEAP_ALIGNMENT
               used == { f \in Range(Chain(After)) : fragIsUsed(After, f) }
           IN  /\ frag \notin UsedFragments
               /\ used = UsedFragments \cup {frag}
               /\ fragGetSize(After, frag) = need
               /\ diagnostics'.allocated = diagnostics.allocated + need
               /\ diagnostics'.peak_allocated =
                      (IF diagnostics.peak_allocated > diagnostics'.allocated
                       THEN diagnostics.peak_allocated ELSE diagnostics'.allocated)
      ]_vars

\* o1heapAllocate has split a fragment for a block of two minimal
\* fragments while another block is live.
AllocatedBySplit ==
    /\ last.path = "allocated"
    /\ SizeOf(last.out - O1HEAP_ALIGNMENT) = 2 * FRAGMENT_SIZE_MIN
    /\ Cardinality(UsedFragments) >= 2
    /\ FreeFragments # {}

\* C16: once the caller has freed every pointer it held, allocated is zero,
\* the arena is one free fragment of capacity bytes, and o1heapAllocate of
\* o1heapGetMaxAllocationSize() bytes succeeds.
DrainedHeapIsWhole ==
    (live = {}) =>
        /\ diagnostics.allocated = 0
        /\ Chain(Heap) = <<ArenaStart(Heap)>>
        /\ FreeFragments = {ArenaStart(Heap)}
        /\ SizeOf(ArenaStart(Heap)) = diagnostics.capacity
        /\ o1heapAllocate(Heap, o1heapGetMaxAllocationSize(Heap)).out # NULL

\* The last block has been freed after at least two blocks were live
\* together: three minimal fragments are more than one block takes there.
DrainedAfterSeveralBlocks ==
    /\ live = {}
    /\ last.path = "freed"
    /\ diagnostics.peak_allocated = 3 * FRAGMENT_SIZE_MIN
    /\ diagnostics.capacity >= 4 * FRAGMENT_SIZE_MIN

MaxAllocationIsCapacityLessHeader ==
    (last.op = "init") =>
        /\ o1heapAllocate(Heap, diagnostics.capacity - O1HEAP_ALIGNMENT).out # NULL
        /\ o1heapAllocate(Heap, (diagnostics.capacity - O1HEAP_ALIGNMENT) + 1).out = NULL

\* C19: o1heapInit returns null iff the base is null, the base is not a
\* multiple of O1HEAP_ALIGNMENT, or the size is below INSTANCE_SIZE_PADDED +
\* FRAGMENT_SIZE_MIN; when it returns null there is no instance and nothing
\* of the arena has been written.
InitRefusesBadArguments ==
    (last.op = "init") =>
        /\ (last.out = NULL) <=>
               \/ last.pointer = NULL
               \/ (last.pointer % O1HEAP_ALIGNMENT) # 0
               \/ last.amount < INSTANCE_SIZE_PADDED + FRAGMENT_SIZE_MIN
        /\ (last.out = NULL) => (Heap = NoHeap)

\* o1heapInit has refused an aligned arena that is one byte short.
InitRefusedOneByteShort ==
    /\ last.path = "refused"
    /\ last.pointer # NULL
    /\ (last.pointer % O1HEAP_ALIGNMENT) = 0
    /\ last.amount = (INSTANCE_SIZE_PADDED + FRAGMENT_SIZE_MIN) - 1
    /\ Heap = NoHeap

\* C20: after a successful o1heapInit(base, size) the capacity is the
\* lesser of size - INSTANCE_SIZE_PADDED and FRAGMENT_SIZE_MAX, rounded down
\* to a multiple of FRAGMENT_SIZE_MIN; arena_end is base +
\* INSTANCE_SIZE_PADDED + capacity; the chain is one free fragment at base +
\* INSTANCE_SIZE_PADDED, with no next and no prev, of capacity bytes; it is
\* the only entry of bin floor(log2(capacity / FRAGMENT_SIZE_MIN)), whose
\* bit is the only one of the mask; allocated, peak_allocated,
\* peak_request_size and oom_count are zero.
InitBuildsOneFreeFragment ==
    ((last.op = "init") /\ (last.out # NULL)) =>
        LET room     == last.amount - INSTANCE_SIZE_PADDED
            limited  == IF room < FRAGMENT_SIZE_MAX THEN room ELSE FRAGMENT_SIZE_MAX
            capacity == limited - (limited % FRAGMENT_SIZE_MIN)
            root     == last.pointer + INSTANCE_SIZE_PADDED
            k        == CHOOSE i \in 0 .. (NUM_BINS_MAX - 1) :
                            /\ (FRAGMENT_SIZE_MIN * (2 ^ i)) <= capacity
                            /\ capacity < (FRAGMENT_SIZE_MIN * (2 ^ (i + 1)))
        IN  /\ handle = last.pointer
            /\ diagnostics.capacity = capacity
            /\ arena_end = root + capacity
            /\ Chain(Heap) = <<root>>
            /\ fragGetNext(Heap, root) = NULL
            /\ fragGetPrev(Heap, root) = NULL
            /\ ~fragIsUsed(Heap, root)
            /\ SizeOf(root) = capacity
            /\ BinList(k) = <<root>>
            /\ \A i \in (0 .. (NUM_BINS_MAX - 1)) \ {k} : bins[i] = NULL
            /\ nonempty_bin_mask = 2 ^ k
            /\ diagnostics.allocated = 0
            /\ diagnostics.peak_allocated = 0
            /\ diagnostics.peak_request_size = 0
            /\ diagnostics.oom_count = 0

\* o1heapInit has been given the largest size there is and has limited the
\* capacity to FRAGMENT_SIZE_MAX.
InitLimitedCapacity ==
    /\ last.path = "init"
    /\ last.amount = SIZE_MAX
    /\ diagnostics.capacity = FRAGMENT_SIZE_MAX


\* ---------------------------------------------------------------------
\* o1heapFree and o1heapReallocate, one call at a time
\* ---------------------------------------------------------------------

\* The bin list that starts at frag in the heap h.
RECURSIVE BinListIn(_, _, _)
BinListIn(h, frag, fuel) ==
    IF (frag = NULL) \/ (fuel = 0) THEN << >>
    ELSE IF (frag + O1HEAP_ALIGNMENT) \notin DOMAIN h.mem THEN <<frag>>
    ELSE <<frag>> \o BinListIn(h, fragNextFree(h, frag), fuel - 1)

\* The size class of s: the k with FRAGMENT_SIZE_MIN * 2^k <= s <
\* FRAGMENT_SIZE_MIN * 2^(k+1).
ClassOf(s) ==
    CHOOSE i \in 0 .. (NUM_BINS_MAX - 1) :
        /\ (FRAGMENT_SIZE_MIN * (2 ^ i)) <= s
        /\ s < (FRAGMENT_SIZE_MIN * (2 ^ (i + 1)))

\* The fragment before frag, or the one after it, is there and free.
FreeBefore(frag) ==
    (fragGetPrev(Heap, frag) # NULL) /\ ~fragIsUsed(Heap, fragGetPrev(Heap, frag))

FreeAfter(frag) ==
    (fragGetNext(Heap, frag) # NULL) /\ ~fragIsUsed(Heap, fragGetNext(Heap, frag))

\* C21: o1heapFree(p) of a live p with fragment F = p - O1HEAP_ALIGNMENT,
\* predecessor P and successor Q takes size(F) off allocated; afterwards one
\* free fragment starts at P if P was there and free, otherwise at F, and
\* ends where Q ended if Q was there and free, otherwise where F ended; it
\* is in the bin of its combined size and in no other, P and Q are binned
\* no longer on their own, and every other fragment is as it was.
FreeMergesWithFreeNeighbours ==
    [][((last'.op = "free") /\ (last'.pointer # NULL)) =>
          \E before \in { Heap } :
          \E after \in { After } :
          \E F \in { last'.pointer - O1HEAP_ALIGNMENT } :
          \E P \in { fragGetPrev(before, F) } :
          \E Q \in { fragGetNext(before, F) } :
          \E start \in { IF (P # NULL) /\ ~fragIsUsed(before, P) THEN P ELSE F } :
          \E end \in { IF (Q # NULL) /\ ~fragIsUsed(before, Q)
                       THEN Q + fragGetSize(before, Q)
                       ELSE F + fragGetSize(before, F) } :
          \E gone \in { (IF start = P THEN {F} ELSE {})
                        \cup (IF end = (F + fragGetSize(before, F)) THEN {} ELSE {Q}) } :
          \E k \in { ClassOf(end - start) } :
          \E fuel \in { Cardinality(DOMAIN mem) } :
          \E fragments \in { Range(Chain(before)) } :
              /\ last'.pointer \in live
              /\ diagnostics'.allocated = diagnostics.allocated - fragGetSize(before, F)
              /\ Range(Chain(after)) = fragments \ gone
              /\ ~fragIsUsed(after, start)
              /\ fragGetSize(after, start) = end - start
              /\ \A i \in 0 .. (NUM_BINS_MAX - 1) :
                     \E list \in { Range(BinListIn(after, after.bins[i], fuel)) } :
                         /\ (start \in list) <=> (i = k)
                         /\ (list \cap gone) = {}
                         /\ (list \ {start}) = (Range(BinListIn(before, before.bins[i], fuel)) \ {P, Q})
              /\ \A f \in fragments \ ({start} \cup gone) :
                     /\ fragGetSize(after, f) = fragGetSize(before, f)
                     /\ fragIsUsed(after, f) = fragIsUsed(before, f)
      ]_vars

\* o1heapFree has merged a block into the free fragment before it, while
\* another block is still held.
FreedIntoFreeFragmentBefore ==
    /\ last.op = "free"
    /\ last.path = "freed"
    /\ (last.pointer - (2 * O1HEAP_ALIGNMENT)) \in DOMAIN mem
    /\ \E f \in FreeFragments :
           /\ f < (last.pointer - O1HEAP_ALIGNMENT)
           /\ (f + SizeOf(f)) >= ((last.pointer - O1HEAP_ALIGNMENT) + FRAGMENT_SIZE_MIN)
    /\ live # {}

\* C22: o1heapFree(NULL) does nothing: the chain, the bin lists, the mask
\* and the five fields of the diagnostics are after the call what they were
\* before it.
FreeOfNullChangesNothing ==
    [][((last'.op = "free") /\ (last'.pointer = NULL)) =>
          /\ HeapUntouched
          /\ After = Heap
          /\ diagnostics' = diagnostics
      ]_vars

\* o1heapFree(NULL) has been called on a heap that holds blocks and free
\* fragments.
FreeOfNullOnBusyHeap ==
    /\ last.op = "free"
    /\ last.pointer = NULL
    /\ last.path = "null"
    /\ live # {}
    /\ FreeFragments # {}

\* C23: o1heapReallocate(NULL, N) returns the pointer and leaves the heap
\* and the diagnostics that o1heapAllocate(N) returns and leaves from the
\* same state, for every N, zero and N above capacity - O1HEAP_ALIGNMENT
\* included.
ReallocateOfNullIsAllocate ==
    [][((last'.op = "reallocate") /\ (last'.pointer = NULL)) =>
          \E a \in { o1heapAllocate(Heap, last'.amount) } :
              /\ last'.out = a.out
              /\ \E settled \in { Settle(a.h) } : After = settled
              /\ live' = (live \cup {a.out}) \ {NULL}
      ]_vars

\* o1heapReallocate(NULL, N) has returned a block cut from a larger free
\* fragment.
ReallocateOfNullHasAllocated ==
    /\ last.op = "reallocate"
    /\ last.pointer = NULL
    /\ last.amount > 0
    /\ last.out # NULL
    /\ fragGetNext(Heap, last.out - O1HEAP_ALIGNMENT) \in FreeFragments
    /\ Cardinality(live) >= 2

\* C24: o1heapReallocate(p, 0) of a live p returns null and leaves the heap
\* that o1heapFree(p) leaves; oom_count and peak_request_size are not
\* changed.
ReallocateToZeroIsFree ==
    [][((last'.op = "reallocate") /\ (last'.pointer # NULL) /\ (last'.amount = 0)) =>
          /\ last'.pointer \in live
          /\ last'.out = NULL
          /\ \E f \in { o1heapFree(Heap, last'.pointer) } :
                 \E settled \in { Settle(f) } : After = settled
          /\ live' = live \ {last'.pointer}
          /\ diagnostics'.oom_count = diagnostics.oom_count
          /\ diagnostics'.peak_request_size = diagnostics.peak_request_size
      ]_vars

\* o1heapReallocate(p, 0) has released a block after a request had failed.
ReallocateToZeroAfterFailure ==
    /\ last.op = "reallocate"
    /\ last.pointer # NULL
    /\ last.amount = 0
    /\ last.path = "free"
    /\ last.pointer \notin live
    /\ diagnostics.oom_count > 0
    /\ diagnostics.peak_request_size > 0

\* C25: for a live p with fragment F and N > 0 with round_up_pow2(N +
\* O1HEAP_ALIGNMENT) <= size(F), which is to say N <= size(F) -
\* O1HEAP_ALIGNMENT, o1heapReallocate(p, N) returns p, never null, the block
\* holds N bytes and the first N of them are what they were, whatever the
\* fragments next to F are.
ShrinkKeepsPointer ==
    [][((last'.op = "reallocate") /\ (last'.pointer # NULL) /\ (last'.amount > 0)) =>
          LET F    == last'.pointer - O1HEAP_ALIGNMENT
              need == LeastPowerOfTwoFrom(last'.amount + O1HEAP_ALIGNMENT)
          IN  /\ (need <= SizeOf(F)) <=> (last'.amount <= (SizeOf(F) - O1HEAP_ALIGNMENT))
              /\ (need <= SizeOf(F)) =>
                     /\ last'.out = last'.pointer
                     /\ last'.pointer \in live'
                     /\ fragIsUsed(After, F)
                     /\ (fragGetSize(After, F) - O1HEAP_ALIGNMENT) >= last'.amount
                     /\ intact'
      ]_vars

\* o1heapReallocate has shrunk or kept a block that lies between two other
\* fragments, the one after it free.
ShrunkBeforeFreeFragment ==
    /\ last.op = "reallocate"
    /\ last.path = "shrink"
    /\ last.out = last.pointer
    /\ intact
    /\ fragGetPrev(Heap, last.out - O1HEAP_ALIGNMENT) # NULL
    /\ fragGetNext(Heap, last.out - O1HEAP_ALIGNMENT) \in FreeFragments
    /\ last.amount < diagnostics.peak_request_size


\* What o1heapReallocate(p, N) of a live p and N > 0 looks at: the size
\* asked for with its header, rounded up, and whether the fragment can grow
\* over the free fragment after it, or over the free fragments around it.
NeedOf(amount) == LeastPowerOfTwoFrom(amount + O1HEAP_ALIGNMENT)

SizeIfFree(frag) ==
    IF (frag # NULL) /\ ~fragIsUsed(Heap, frag) THEN SizeOf(frag) ELSE 0

ForwardFits(frag, need) ==
    FreeAfter(frag) /\ ((SizeOf(frag) + SizeOf(fragGetNext(Heap, frag))) >= need)

BackwardFits(frag, need) ==
    /\ FreeBefore(frag)
    /\ ((SizeOf(fragGetPrev(Heap, frag)) + SizeOf(frag)) + SizeIfFree(fragGetNext(Heap, frag))) >= need

\* The step is a call o1heapReallocate(p, N) with p not null and N > 0.
ResizeStep ==
    (last'.op = "reallocate") /\ (last'.pointer # NULL) /\ (last'.amount > 0)

\* C26: if need = round_up_pow2(N + O1HEAP_ALIGNMENT) is above size(F), the
\* fragment after F is free and the two together are at least need, then
\* o1heapReallocate(p, N) returns p, also when the fragment before F is
\* free; the old payload is unchanged, F has size need, allocated has grown
\* by need - size(F) and peak_allocated is not below it.
ForwardExpansionKeepsPointer ==
    [][(ResizeStep
        /\ (NeedOf(last'.amount) > SizeOf(last'.pointer - O1HEAP_ALIGNMENT))
        /\ ForwardFits(last'.pointer - O1HEAP_ALIGNMENT, NeedOf(last'.amount))) =>
          LET F    == last'.pointer - O1HEAP_ALIGNMENT
              need == NeedOf(last'.amount)
          IN  /\ last'.out = last'.pointer
              /\ intact'
              /\ fragIsUsed(After, F)
              /\ fragGetSize(After, F) = need
              /\ diagnostics'.allocated = diagnostics.allocated + (need - SizeOf(F))
              /\ diagnostics'.peak_allocated =
                     IF diagnostics.peak_allocated > diagnostics'.allocated
                     THEN diagnostics.peak_allocated
                     ELSE diagnostics'.allocated
      ]_vars

\* o1heapReallocate has grown a block forward although the fragment before
\* it is free.
ExpandedForwardAfterFreeFragment ==
    /\ last.op = "reallocate"
    /\ last.path = "forward"
    /\ last.out = last.pointer
    /\ intact
    /\ fragGetPrev(Heap, last.out - O1HEAP_ALIGNMENT) \in FreeFragments

\* C27: after a successful o1heapReallocate(p, N) that returns q # p, by
\* the backward expansion, where the two blocks may overlap, or by allocate,
\* copy and free, the first min(old_amount, N) bytes at q are the bytes that
\* were at p before the call, old_amount being size(F) - O1HEAP_ALIGNMENT.
MovedBlockKeepsContents ==
    [][(ResizeStep /\ (last'.out # NULL) /\ (last'.out # last'.pointer)) =>
          LET old_amount == SizeOf(last'.pointer - O1HEAP_ALIGNMENT) - O1HEAP_ALIGNMENT
              least      == IF old_amount < last'.amount THEN old_amount ELSE last'.amount
          IN  /\ last'.path \in {"backward", "copy"}
              /\ PayloadCells(After, last'.out) # {}
              /\ least <= (fragGetSize(After, last'.out - O1HEAP_ALIGNMENT) - O1HEAP_ALIGNMENT)
              /\ least <= KeptBytes(Heap, After, last'.pointer, last'.out)
              /\ intact'
      ]_vars

\* o1heapReallocate has moved a block backward to where it overlaps the
\* place it had.
MovedBackwardOverItself ==
    /\ last.op = "reallocate"
    /\ last.path = "backward"
    /\ intact
    /\ last.out < last.pointer
    /\ last.pointer \in PayloadCells(Heap, last.out)
    /\ Cardinality(PayloadCells(Heap, last.out)) > 3

ReallocateFailsIffNothingFits ==
    [][ResizeStep =>
          LET F    == last'.pointer - O1HEAP_ALIGNMENT
              need == NeedOf(last'.amount)
          IN  /\ last'.pointer \in live
              /\ (last'.out = NULL) <=>
                     \/ last'.amount > (diagnostics.capacity - O1HEAP_ALIGNMENT)
                     \/ /\ need > SizeOf(F)
                        /\ ~ForwardFits(F, need)
                        /\ ~BackwardFits(F, need)
                        /\ \A f \in FreeFragments : SizeOf(f) < need
      ]_vars

\* o1heapReallocate has failed with an amount within capacity -
\* O1HEAP_ALIGNMENT, the block having a free fragment next to it.
ReallocateFailedBesideFreeFragment ==
    /\ last.op = "reallocate"
    /\ last.path = "copy_oom"
    /\ last.out = NULL
    /\ last.amount <= (diagnostics.capacity - O1HEAP_ALIGNMENT)
    /\ last.pointer \in live
    /\ \/ fragGetNext(Heap, last.pointer - O1HEAP_ALIGNMENT) \in FreeFragments
       \/ fragGetPrev(Heap, last.pointer - O1HEAP_ALIGNMENT) \in FreeFragments

\* C30: peak_request_size is the largest amount passed so far to
\* o1heapAllocate or o1heapReallocate, zero if there was none, the requests
\* that failed and the calls that shrank in place included: it is zero
\* after o1heapInit, every call of the two makes it the larger of what it
\* was and of the amount of the call, and o1heapFree leaves it as it was;
\* so it never decreases.  Where a call has shrunk a block in place, the
\* same holds of the call with the largest amount that the block holds.
PeakRequestSizeIsLargestAmount ==
    /\ (last.op = "init") => (diagnostics.peak_request_size = 0)
    /\ [][/\ (last'.op \in {"allocate", "reallocate"}) =>
                 (diagnostics'.peak_request_size =
                      IF last'.amount > diagnostics.peak_request_size
                      THEN last'.amount
                      ELSE diagnostics.peak_request_size)
          /\ (last'.op = "free") =>
                 (diagnostics'.peak_request_size = diagnostics.peak_request_size)
          /\ (last'.path = "shrink") =>
                 \E most \in { SizeOf(last'.pointer - O1HEAP_ALIGNMENT) - O1HEAP_ALIGNMENT } :
                     \E r \in { o1heapReallocate(Heap, last'.pointer, most) } :
                         /\ r.path = "shrink"
                         /\ r.h.diagnostics.peak_request_size =
                                IF most > diagnostics.peak_request_size
                                THEN most
                                ELSE diagnostics.peak_request_size
          /\ diagnostics'.peak_request_size >= diagnostics.peak_request_size
         ]_vars

\* A request that failed is the largest so far, above everything that has
\* been allocated.
PeakRequestSizeOfFailedRequest ==
    /\ last.op \in {"allocate", "reallocate"}
    /\ last.out = NULL
    /\ last.amount > 0
    /\ diagnostics.peak_request_size = last.amount
    /\ diagnostics.peak_request_size > diagnostics.peak_allocated
    /\ diagnostics.peak_allocated > 0


\* ---------------------------------------------------------------------
\* Placement, limits, assertions and the free lists
\* ---------------------------------------------------------------------

\* The sequence s without its first k elements.
DropFirst(s, k) == [n \in 1 .. (IF Len(s) > k THEN Len(s) - k ELSE 0) |-> s[n + k]]

\* Every element of s is in t, and the elements of s come in t in the order
\* they have in s (the elements of a bin list are distinct).
KeepsOrder(s, t) ==
    /\ Range(s) \subseteq Range(t)
    /\ \A a, b \in DOMAIN s :
           (a < b) => ((CHOOSE n \in DOMAIN t : t[n] = s[a]) < (CHOOSE n \in DOMAIN t : t[n] = s[b]))

\* How many times the call of the step calls rebin at most: once, and twice
\* when o1heapReallocate allocates, copies and frees.
RebinsOfStep == IF last'.path = "copy" THEN 2 ELSE 1

\* C32: a successful o1heapAllocate takes the head of the lowest non-empty
\* bin whose index is at least log2(need / FRAGMENT_SIZE_MIN); when the
\* fragment F is larger than need by FRAGMENT_SIZE_MIN or more, the block
\* is the low part of F and what is left over is a free fragment at F +
\* need, at the head of its bin.  The head of a bin is the fragment put in
\* it last: in every step, every bin list is the fragments the step has put
\* in, at the head, followed by fragments that were in the list before, in
\* the order they had.
AllocateTakesHeadOfLowestBin ==
    [][/\ ((last'.op = "allocate") /\ (last'.out # NULL)) =>
              \E after \in { After } :
              \E need \in { NeedOf(last'.amount) } :
              \E F \in { last'.out - O1HEAP_ALIGNMENT } :
              \E j \in { i \in ClassOf(need) .. (NUM_BINS_MAX - 1) :
                             /\ bins[i] # NULL
                             /\ \A m \in ClassOf(need) .. (i - 1) : bins[m] = NULL } :
              \E leftover \in { SizeOf(F) - need } :
                  /\ F = bins[j]
                  /\ fragIsUsed(after, F)
                  /\ IF leftover >= FRAGMENT_SIZE_MIN
                     THEN /\ fragGetNext(after, F) = F + need
                          /\ ~fragIsUsed(after, F + need)
                          /\ fragGetSize(after, F + need) = leftover
                          /\ after.bins[ClassOf(leftover)] = F + need
                     ELSE /\ leftover = 0
                          /\ fragGetNext(after, F) = fragGetNext(Heap, F)
       /\ \E after \in { After } :
          \E fuel \in { Cardinality(DOMAIN mem) } :
              \A i \in 0 .. (NUM_BINS_MAX - 1) :
                  (after.bins[i] # NULL) =>
                      \E new \in { BinListIn(after, after.bins[i], fuel) } :
                      \E old \in { BinList(i) } :
                          \E k \in 0 .. RebinsOfStep : KeepsOrder(DropFirst(new, k), old)
      ]_vars

\* o1heapAllocate has found the bin of the size asked for empty, has taken
\* the head of a higher bin and has put what was left over at the head of
\* its bin.
AllocatedFromHigherBin ==
    /\ last.op = "allocate"
    /\ last.out # NULL
    /\ last.amount = FRAGMENT_SIZE_MIN - O1HEAP_ALIGNMENT
    /\ \E L \in { fragGetNext(Heap, last.out - O1HEAP_ALIGNMENT) } :
           /\ L \in FreeFragments
           /\ SizeOf(L) >= 2 * FRAGMENT_SIZE_MIN
           /\ bins[ClassOf(SizeOf(L))] = L
    /\ Cardinality(live) >= 2


\* C33: every o1heapAllocate(N) with N above o1heapGetMaxAllocationSize()
\* is refused by the check of the amount against capacity -
\* O1HEAP_ALIGNMENT, before the bin mask is looked at.
AllocateAboveMaxFailsCapacityCheck ==
    [][((last'.op = "allocate") /\ (last'.amount > o1heapGetMaxAllocationSize(Heap))) =>
          /\ last'.out = NULL
          /\ last'.amount > (diagnostics.capacity - O1HEAP_ALIGNMENT)
      ]_vars

\* C34: in o1heapReallocate(p, N) with p live and 0 < N <= capacity -
\* O1HEAP_ALIGNMENT, the size new_frag_size = round_up_pow2(N +
\* O1HEAP_ALIGNMENT) is between FRAGMENT_SIZE_MIN and FRAGMENT_SIZE_MAX and
\* not above the capacity: the two assertions that follow its computation
\* hold.
ReallocateSizeAssertionsHold ==
    [][(ResizeStep /\ (last'.amount <= (diagnostics.capacity - O1HEAP_ALIGNMENT))) =>
          \E new_frag_size \in { roundUpToPowerOf2(SizeAdd(last'.amount, O1HEAP_ALIGNMENT)) } :
              /\ last'.pointer \in live
              /\ new_frag_size <= FRAGMENT_SIZE_MAX
              /\ new_frag_size >= FRAGMENT_SIZE_MIN
              /\ new_frag_size <= diagnostics.capacity
      ]_vars


\* C35: when o1heapReallocate(p, N) finds need below size(F), it takes
\* size(F) - need off allocated and makes a free fragment at F + need; if
\* the fragment after F was free, the new fragment takes it in and one free
\* fragment of (size(F) - need) + size(next) is binned, otherwise the new
\* fragment of size(F) - need is binned alone; when need = size(F) nothing
\* but peak_request_size changes; peak_allocated changes in neither case.
ShrinkCutsOffFreeTail ==
    [][(ResizeStep /\ (NeedOf(last'.amount) <= SizeOf(last'.pointer - O1HEAP_ALIGNMENT))) =>
          \E after \in { After } :
          \E F \in { last'.pointer - O1HEAP_ALIGNMENT } :
          \E need \in { NeedOf(last'.amount) } :
          \E next \in { fragGetNext(Heap, F) } :
          \E tail \in { (SizeOf(F) - need) + SizeIfFree(next) } :
              /\ last'.path = "shrink"
              /\ diagnostics'.peak_allocated = diagnostics.peak_allocated
              /\ diagnostics'.oom_count = diagnostics.oom_count
              /\ IF need < SizeOf(F)
                 THEN /\ diagnostics'.allocated = diagnostics.allocated - (SizeOf(F) - need)
                      /\ fragGetSize(after, F) = need
                      /\ fragGetNext(after, F) = F + need
                      /\ ~fragIsUsed(after, F + need)
                      /\ fragGetSize(after, F + need) = tail
                      /\ fragGetNext(after, F + need) =
                             (IF FreeAfter(F) THEN fragGetNext(Heap, next) ELSE next)
                      /\ \A i \in 0 .. (NUM_BINS_MAX - 1) :
                             \E list \in { Range(BinListIn(after, after.bins[i], Cardinality(DOMAIN mem))) } :
                                 /\ ((F + need) \in list) <=> (i = ClassOf(tail))
                                 /\ FreeAfter(F) => (next \notin list)
                                 /\ (list \ {F + need}) = (Range(BinList(i)) \ {next})
                 ELSE HeapUntouched
      ]_vars

\* o1heapReallocate has left a block of one minimal fragment at the start
\* of the arena and a free fragment of three after it, the heap having held
\* two minimal fragments at most and a larger amount having been asked for.
ShrunkIntoFreeFragmentAfter ==
    /\ last.op = "reallocate"
    /\ last.path = "shrink"
    /\ SizeOf(last.out - O1HEAP_ALIGNMENT) = FRAGMENT_SIZE_MIN
    /\ fragGetPrev(Heap, last.out - O1HEAP_ALIGNMENT) = NULL
    /\ fragGetNext(Heap, last.out - O1HEAP_ALIGNMENT) \in FreeFragments
    /\ SizeOf(fragGetNext(Heap, last.out - O1HEAP_ALIGNMENT)) = 3 * FRAGMENT_SIZE_MIN
    /\ diagnostics.peak_allocated = 2 * FRAGMENT_SIZE_MIN
    /\ diagnostics.peak_request_size > last.amount


\* The heap that the call of the step leaves, as the call leaves it.
LeftByCall ==
    IF last'.op = "allocate" THEN o1heapAllocate(Heap, last'.amount).h
    ELSE IF last'.op = "free" THEN o1heapFree(Heap, last'.pointer)
    ELSE o1heapReallocate(Heap, last'.pointer, last'.amount).h

\* The cells of h that are inside a free fragment and are neither its
\* header nor its bin links.
FreeInterior(h) ==
    LET free == { f \in Range(Chain(h)) : ~fragIsUsed(h, f) }
    IN  UNION { { c \in DOMAIN h.mem :
                      (c >= f + (2 * O1HEAP_ALIGNMENT)) /\ (c < f + fragGetSize(h, f)) } : f \in free }

\* C36: a second o1heapFree(p) is caught by the assertion that the fragment
\* is used: o1heapFree(p) finds the used flag of the header at p -
\* O1HEAP_ALIGNMENT set and leaves it clear, whether the fragment stays,
\* takes in the one after it, or is merged into the one before it, where
\* its header is no longer a header; and no call writes to a cell that is
\* inside a free fragment before and after it, so the flag stays clear
\* until the memory is handed out again.
SecondFreeFindsFlagClear ==
    [][/\ ((last'.op = "free") /\ (last'.pointer # NULL)) =>
              \E left \in { LeftByCall } :
                  /\ fragIsUsed(Heap, last'.pointer - O1HEAP_ALIGNMENT)
                  /\ ~fragIsUsed(left, last'.pointer - O1HEAP_ALIGNMENT)
                  /\ (last'.pointer - O1HEAP_ALIGNMENT) \in Range(Chain(After)) =>
                         ~fragIsUsed(After, last'.pointer - O1HEAP_ALIGNMENT)
       /\ (last'.op \in {"allocate", "free", "reallocate"}) =>
              \E was \in { FreeInterior(Heap) } :
                  (was # {}) =>
                      \E inside \in { was \cap FreeInterior(After) } :
                          (inside # {}) =>
                              \E left \in { LeftByCall } :
                                  \A c \in inside : left.mem[c] = mem[c]
      ]_vars

\* o1heapFree has merged a block into the free fragment before it: the
\* header of the block is inside a free fragment.
FreedHeaderInsideFreeFragment ==
    /\ last.op = "free"
    /\ last.path = "freed"
    /\ (last.pointer - O1HEAP_ALIGNMENT) \in FreeInterior(Heap)
    /\ live # {}


\* ------------------------------------------------- the assertions

\* Each operator below is the conjunction of the O1HEAP_ASSERTs one function
\* evaluates when it is called with the arguments given, those of the
\* functions it calls included, on the heap as it is when each is reached.

log2FloorAsserts(x) == x > 0

roundUpToPowerOf2Asserts(x) == x >= 2

fragGetNextAsserts(h, frag) ==
    /\ (frag % PtrBytes) = 0
    /\ (fragGetNext(h, frag) % PtrBytes) = 0

fragGetPrevAsserts(h, frag) ==
    /\ (frag % PtrBytes) = 0
    /\ (fragGetPrev(h, frag) % PtrBytes) = 0

fragIsUsedAsserts(frag) == (frag % PtrBytes) = 0

fragGetSizeAsserts(h, frag) ==
    /\ (frag % PtrBytes) = 0
    /\ frag >= (h.handle + INSTANCE_SIZE_PADDED)
    /\ fragGetNextAsserts(h, frag)
    /\ (fragGetNext(h, frag) % PtrBytes) = 0
    /\ fragGetPrevAsserts(h, frag)
    /\ (fragGetPrev(h, frag) % PtrBytes) = 0
    /\ fragGetSize(h, frag) >= FRAGMENT_SIZE_MIN
    /\ fragGetSize(h, frag) <= h.diagnostics.capacity
    /\ (fragGetSize(h, frag) % FRAGMENT_SIZE_MIN) = 0

fragSetNextAsserts(frag, value) ==
    /\ (frag % O1HEAP_ALIGNMENT) = 0
    /\ (value % O1HEAP_ALIGNMENT) = 0

fragSetPrevAsserts(frag, value) ==
    /\ (frag % O1HEAP_ALIGNMENT) = 0
    /\ (value % O1HEAP_ALIGNMENT) = 0

fragSetUsedAsserts(frag) == (frag % O1HEAP_ALIGNMENT) = 0

interlinkAsserts(left, right) ==
    /\ (left # NULL) => fragSetNextAsserts(left, right)
    /\ (right # NULL) => fragSetPrevAsserts(right, left)

rebinAsserts(h, fragment, fragment_size) ==
    /\ h.handle # NULL
    /\ fragment # NULL
    /\ (fragment_size % FRAGMENT_SIZE_MIN) = 0
    /\ log2FloorAsserts(fragment_size \div FRAGMENT_SIZE_MIN)
    /\ \E idx \in { log2Floor(fragment_size \div FRAGMENT_SIZE_MIN) } : idx < NUM_BINS_MAX

unbinAsserts(h, fragment, fragment_size) ==
    /\ h.handle # NULL
    /\ fragment # NULL
    /\ (fragment_size % FRAGMENT_SIZE_MIN) = 0
    /\ log2FloorAsserts(fragment_size \div FRAGMENT_SIZE_MIN)
    /\ \E idx \in { log2Floor(fragment_size \div FRAGMENT_SIZE_MIN) } :
           /\ idx < NUM_BINS_MAX
           /\ (h.bins[idx] = fragment) => (fragPrevFree(h, fragment) = NULL)

\* The capacities the while loop of o1heapInit passes through on its way
\* down from capacity.
AlignCapacitySteps(capacity) == { c \in AlignCapacity(capacity) .. capacity : (c % FRAGMENT_SIZE_MIN) # 0 }

o1heapInitAsserts(base, size, fill) ==
    ((base # NULL) /\ ((base % O1HEAP_ALIGNMENT) = 0) /\ (size >= o1heapMinArenaSize)) =>
        LET limited     == SizeSub(size, INSTANCE_SIZE_PADDED)
            capacity    == InitCapacity(size)
            arena_start == base + INSTANCE_SIZE_PADDED
            frag        == arena_start
            h0 == [handle            |-> base,
                   mem               |-> [c \in ArenaCells(arena_start, capacity) |-> <<fill, fill>>],
                   bins              |-> [i \in 0 .. (NUM_BINS_MAX - 1) |-> NULL],
                   nonempty_bin_mask |-> 0,
                   arena_end         |-> arena_start + capacity,
                   diagnostics       |-> [capacity |-> capacity, allocated |-> 0,
                                          peak_allocated |-> 0, peak_request_size |-> 0,
                                          oom_count |-> 0]]
            h1 == fragSetNext(h0, frag, NULL)
            h2 == fragSetPrev(h1, frag, NULL)
            h3 == fragSetUsed(h2, frag, FALSE)
            h4 == fragSetNextFree(h3, frag, NULL)
            h5 == fragSetPrevFree(h4, frag, NULL)
        IN  /\ (base % PtrBytes) = 0
            /\ \A c \in AlignCapacitySteps(IF limited > FRAGMENT_SIZE_MAX
                                           THEN FRAGMENT_SIZE_MAX ELSE limited) : c > 0
            /\ (capacity % FRAGMENT_SIZE_MIN) = 0
            /\ (capacity >= FRAGMENT_SIZE_MIN) /\ (capacity <= FRAGMENT_SIZE_MAX)
            /\ (frag % O1HEAP_ALIGNMENT) = 0
            /\ fragSetNextAsserts(frag, NULL)
            /\ fragSetPrevAsserts(frag, NULL)
            /\ fragSetUsedAsserts(frag)
            /\ fragGetSizeAsserts(h5, frag)
            /\ fragGetSize(h5, frag) = capacity
            /\ rebinAsserts(h5, frag, capacity)
            /\ rebin(h5, frag, capacity).nonempty_bin_mask # 0

AllocateSplitAsserts(h, frag, alloc_size, leftover) ==
    \E new_frag \in { frag + alloc_size } :
    \E h1 \in { fragSetUsed(h, new_frag, FALSE) } :
    \E right \in { fragGetNext(h1, frag) } :
    \E h3 \in { interlink(interlink(h1, new_frag, right), frag, new_frag) } :
        /\ fragSetUsedAsserts(new_frag)
        /\ fragGetNextAsserts(h1, frag)
        /\ interlinkAsserts(new_frag, right)
        /\ interlinkAsserts(frag, new_frag)
        /\ fragGetSizeAsserts(h3, new_frag)
        /\ leftover = fragGetSize(h3, new_frag)
        /\ rebinAsserts(h3, new_frag, leftover)

o1heapAllocateAsserts(h, amount) ==
    LET capacity == h.diagnostics.capacity
        in_range == (amount > 0) /\ (amount <= SizeSub(capacity, O1HEAP_ALIGNMENT))
    IN  /\ h.handle # NULL
        /\ capacity <= FRAGMENT_SIZE_MAX
        /\ in_range =>
               \E alloc_size \in { roundUpToPowerOf2(SizeAdd(amount, O1HEAP_ALIGNMENT)) } :
               \E alloc_bins \in { alloc_size \div FRAGMENT_SIZE_MIN } :
               \E optimal_bin_index \in { log2Floor(alloc_bins) } :
               \E suitable_bins \in { BitAnd(h.nonempty_bin_mask,
                                             BitNot(SizeSub(pow2(optimal_bin_index), 1))) } :
               \E smallest_bin_mask \in { BitAnd(suitable_bins, BitNot(SizeSub(suitable_bins, 1))) } :
                   /\ roundUpToPowerOf2Asserts(SizeAdd(amount, O1HEAP_ALIGNMENT))
                   /\ alloc_size <= FRAGMENT_SIZE_MAX
                   /\ alloc_size >= FRAGMENT_SIZE_MIN
                   /\ alloc_size >= SizeAdd(amount, O1HEAP_ALIGNMENT)
                   /\ BitAnd(alloc_size, SizeSub(alloc_size, 1)) = 0
                   /\ BitAnd(alloc_bins, SizeSub(alloc_bins, 1)) = 0
                   /\ log2FloorAsserts(alloc_bins)
                   /\ optimal_bin_index < NUM_BINS_MAX
                   /\ (smallest_bin_mask # 0) =>
                          \E bin_index \in { log2Floor(smallest_bin_mask) } :
                          \E frag \in { h.bins[bin_index] } :
                              /\ BitAnd(smallest_bin_mask, SizeSub(smallest_bin_mask, 1)) = 0
                              /\ log2FloorAsserts(smallest_bin_mask)
                              /\ bin_index >= optimal_bin_index
                              /\ bin_index < NUM_BINS_MAX
                              /\ frag # NULL
                              /\ fragGetSizeAsserts(h, frag)
                              /\ \E frag_size \in { fragGetSize(h, frag) } :
                                 \E leftover \in { SizeSub(frag_size, alloc_size) } :
                                 \E h1 \in { unbin(h, frag, frag_size) } :
                                 \E h2 \in { IF leftover >= FRAGMENT_SIZE_MIN
                                             THEN AllocateSplit(h1, frag, alloc_size, leftover)
                                             ELSE h1 } :
                                 \E allocated \in { SizeAdd(h2.diagnostics.allocated, alloc_size) } :
                                     /\ frag_size >= alloc_size
                                     /\ (frag_size % FRAGMENT_SIZE_MIN) = 0
                                     /\ fragIsUsedAsserts(frag)
                                     /\ ~fragIsUsed(h, frag)
                                     /\ unbinAsserts(h, frag, frag_size)
                                     /\ leftover < capacity
                                     /\ (leftover % FRAGMENT_SIZE_MIN) = 0
                                     /\ (leftover >= FRAGMENT_SIZE_MIN) =>
                                            AllocateSplitAsserts(h1, frag, alloc_size, leftover)
                                     /\ (h2.diagnostics.allocated % FRAGMENT_SIZE_MIN) = 0
                                     /\ allocated <= h2.diagnostics.capacity
                                     /\ fragGetSizeAsserts(h2, frag)
                                     /\ fragGetSize(h2, frag) >= SizeAdd(amount, O1HEAP_ALIGNMENT)
                                     /\ fragSetUsedAsserts(frag)

FreeMergeAsserts(h, frag, frag_size) ==
    \E prev \in { fragGetPrev(h, frag) }, next \in { fragGetNext(h, frag) } :
    \E join_left \in { (prev # NULL) /\ ~fragIsUsed(h, prev) },
       join_right \in { (next # NULL) /\ ~fragIsUsed(h, next) } :
        /\ fragGetPrevAsserts(h, frag)
        /\ fragGetNextAsserts(h, frag)
        /\ (prev # NULL) => fragIsUsedAsserts(prev)
        /\ (next # NULL) => fragIsUsedAsserts(next)
        /\ IF join_left /\ join_right
           THEN \E prev_size \in { fragGetSize(h, prev) }, next_size \in { fragGetSize(h, next) } :
                \E h1 \in { unbin(h, prev, prev_size) } :
                \E h2 \in { unbin(h1, next, next_size) } :
                \E after \in { fragGetNext(h2, next) } :
                    /\ fragGetSizeAsserts(h, prev)
                    /\ fragGetSizeAsserts(h, next)
                    /\ unbinAsserts(h, prev, prev_size)
                    /\ unbinAsserts(h1, next, next_size)
                    /\ fragGetNextAsserts(h2, next)
                    /\ interlinkAsserts(prev, after)
                    /\ rebinAsserts(h2, prev, SizeAdd(SizeAdd(prev_size, frag_size), next_size))
           ELSE IF join_left
           THEN \E prev_size \in { fragGetSize(h, prev) } :
                    /\ fragGetSizeAsserts(h, prev)
                    /\ unbinAsserts(h, prev, prev_size)
                    /\ interlinkAsserts(prev, next)
                    /\ rebinAsserts(h, prev, SizeAdd(prev_size, frag_size))
           ELSE IF join_right
           THEN \E next_size \in { fragGetSize(h, next) } :
                \E h1 \in { unbin(h, next, next_size) } :
                    /\ fragGetSizeAsserts(h, next)
                    /\ unbinAsserts(h, next, next_size)
                    /\ fragGetNextAsserts(h1, next)
                    /\ interlinkAsserts(frag, fragGetNext(h1, next))
                    /\ rebinAsserts(h1, frag, SizeAdd(frag_size, next_size))
           ELSE rebinAsserts(h, frag, frag_size)

o1heapFreeAsserts(h, pointer) ==
    /\ h.handle # NULL
    /\ h.diagnostics.capacity <= FRAGMENT_SIZE_MAX
    /\ (pointer # NULL) =>
           \E frag \in { pointer - O1HEAP_ALIGNMENT } :
               /\ (frag % PtrBytes) = 0
               /\ frag >= (h.handle + INSTANCE_SIZE_PADDED)
               /\ frag <= (((h.handle + INSTANCE_SIZE_PADDED) + h.diagnostics.capacity) - FRAGMENT_SIZE_MIN)
               /\ fragIsUsedAsserts(frag)
               /\ fragIsUsed(h, frag)
               /\ fragGetNextAsserts(h, frag)
               /\ fragGetPrevAsserts(h, frag)
               /\ fragGetSizeAsserts(h, frag)
               /\ \E frag_size \in { fragGetSize(h, frag) } :
                      /\ frag_size >= FRAGMENT_SIZE_MIN
                      /\ frag_size <= h.diagnostics.capacity
                      /\ (frag_size % FRAGMENT_SIZE_MIN) = 0
                      /\ fragSetUsedAsserts(frag)
                      /\ h.diagnostics.allocated >= frag_size
                      /\ \E h1 \in { fragSetUsed(h, frag, FALSE) } :
                             FreeMergeAsserts(h1, frag, frag_size)

\* The assertions of the o1heapAllocate and of the o1heapFree that
\* o1heapReallocate calls when it has to move the block at pointer to a
\* fragment found elsewhere.
ReallocCopyAsserts(h, pointer, new_amount) ==
    LET h0 == [h EXCEPT !.diagnostics.peak_request_size =
                          larger(h.diagnostics.peak_request_size, new_amount)]
        old_amount == SizeSub(fragGetSize(h0, pointer - O1HEAP_ALIGNMENT), O1HEAP_ALIGNMENT)
        a  == o1heapAllocate(h0, new_amount)
    IN  /\ o1heapAllocateAsserts(h0, new_amount)
        /\ (a.out # NULL) => o1heapFreeAsserts(memmove(a.h, a.out, pointer, old_amount), pointer)

IsPowerOfTwo(s) == \E k \in 0 .. (SIZE_BITS - 1) : s = 2 ^ k

\* The size of every used fragment is a power of two, and every live
\* pointer is the payload of a used fragment whose payload size and
\* O1HEAP_ALIGNMENT add up to a power of two.
UsedSizesArePowersOfTwo ==
    /\ \A f \in UsedFragments : IsPowerOfTwo(SizeOf(f))
    /\ \A p \in live :
           /\ (p - O1HEAP_ALIGNMENT) \in UsedFragments
           /\ IsPowerOfTwo((PayloadEnd(p) - p) + O1HEAP_ALIGNMENT)

\* C38: in every reachable state the size of every used fragment is a
\* power of two, and so is the payload size of every live pointer plus
\* O1HEAP_ALIGNMENT; every o1heapAllocate and every o1heapReallocate that
\* returns a pointer for an amount above zero leaves the fragment of that
\* pointer with the least power of two that holds the amount and
\* O1HEAP_ALIGNMENT as its size, whichever way it took.
UsedFragmentHasSizeAskedFor ==
    /\ []UsedSizesArePowersOfTwo
    /\ [][((last'.op \in {"allocate", "reallocate"}) /\ (last'.out # NULL) /\ (last'.amount > 0)) =>
              /\ fragIsUsed(After, last'.out - O1HEAP_ALIGNMENT)
              /\ fragGetSize(After, last'.out - O1HEAP_ALIGNMENT) = NeedOf(last'.amount)]_vars

\* o1heapReallocate has grown a block in place to four minimal fragments,
\* which is all of the block and of the free fragment after it.
ExpandedForwardIntoAllOfNext ==
    /\ last.op = "reallocate"
    /\ last.path = "forward"
    /\ last.out = last.pointer
    /\ SizeOf(last.out - O1HEAP_ALIGNMENT) = 4 * FRAGMENT_SIZE_MIN
    /\ diagnostics.capacity = 4 * FRAGMENT_SIZE_MIN
    /\ diagnostics.peak_allocated = 4 * FRAGMENT_SIZE_MIN


\* C39: every free fragment of the chain is at one place of one bin list
\* and at no other, no bin list holds anything but free fragments of the
\* chain, the head of every bin list has prev_free null, and every member
\* but the head has the member before it as its prev_free.
FreeListsAreConsistent ==
    LET lists  == [i \in 0 .. (NUM_BINS_MAX - 1) |-> BinList(i)]
        places == { <<i, n>> \in (0 .. (NUM_BINS_MAX - 1)) \X (1 .. Cardinality(Fragments)) :
                        n <= Len(lists[i]) }
    IN  /\ \A f \in FreeFragments :
               Cardinality({ pl \in places : lists[pl[1]][pl[2]] = f }) = 1
        /\ \A pl \in places : lists[pl[1]][pl[2]] \in FreeFragments
        /\ \A i \in 0 .. (NUM_BINS_MAX - 1) :
               /\ Len(lists[i]) <= Cardinality(Fragments)
               /\ (lists[i] # << >>) => (fragPrevFree(Heap, lists[i][1]) = NULL)
               /\ \A n \in 1 .. (Len(lists[i]) - 1) :
                      /\ fragNextFree(Heap, lists[i][n]) = lists[i][n + 1]
                      /\ fragPrevFree(Heap, lists[i][n + 1]) = lists[i][n]
               /\ (lists[i] # << >>) => (fragNextFree(Heap, lists[i][Len(lists[i])]) = NULL)

\* o1heapFree has put a fragment at the head of a bin that held one
\* already, with a used fragment between the two.
FreedIntoBinBeforeOldHead ==
    /\ last.op = "free"
    /\ last.pointer # NULL
    /\ bins[0] = last.pointer - O1HEAP_ALIGNMENT
    /\ Len(BinList(0)) = 2
    /\ BinList(0)[2] > bins[0]
    /\ UsedFragments # {}


\* C40: o1heapFree of the pointer that a successful o1heapAllocate has just
\* returned gives back the heap as it was before the o1heapAllocate: the
\* same fragments at the same addresses with the same sizes and used
\* flags, the same fragments in the same order in every bin list, the same
\* bin mask, allocated, capacity and oom_count.  (peak_allocated and
\* peak_request_size are the two fields that may differ.)
FreeUndoesAllocate ==
    [][((last'.op = "allocate") /\ (last'.out # NULL)) =>
           \E f \in { o1heapFree(After, last'.out) } :
           \E chain \in { Chain(Heap) } :
           \E fuel \in { Cardinality(DOMAIN mem) } :
               /\ Chain(f) = chain
               /\ \A frag \in Range(chain) :
                      /\ fragGetSize(f, frag) = fragGetSize(Heap, frag)
                      /\ fragIsUsed(f, frag) = fragIsUsed(Heap, frag)
                      /\ fragGetPrev(f, frag) = fragGetPrev(Heap, frag)
               /\ \A i \in 0 .. (NUM_BINS_MAX - 1) :
                      /\ f.bins[i] = bins[i]
                      /\ (bins[i] # NULL) => (BinListIn(f, f.bins[i], fuel) = BinList(i))
               /\ f.nonempty_bin_mask = nonempty_bin_mask
               /\ f.arena_end = arena_end
               /\ f.diagnostics.allocated = diagnostics.allocated
               /\ f.diagnostics.capacity = diagnostics.capacity
               /\ f.diagnostics.oom_count = diagnostics.oom_count
               /\ f.diagnostics.peak_allocated >= diagnostics.peak_allocated
               /\ f.diagnostics.peak_request_size >= diagnostics.peak_request_size
      ]_vars

\* o1heapAllocate has handed out a minimal fragment whole while a free
\* fragment of the same size, which is not next to it, stays in the bin.
AllocatedOneOfTwoInBin ==
    /\ last.op = "allocate"
    /\ last.out # NULL
    /\ SizeOf(last.out - O1HEAP_ALIGNMENT) = FRAGMENT_SIZE_MIN
    /\ \E f \in FreeFragments :
           /\ SizeOf(f) = FRAGMENT_SIZE_MIN
           /\ bins[0] = f
           /\ fragGetNext(Heap, last.out - O1HEAP_ALIGNMENT) # f
           /\ fragGetPrev(Heap, last.out - O1HEAP_ALIGNMENT) # f

====
